---- MODULE Spec2Model ----
(***************************************************************************)
(* Verification model of the museum booking backend:                       *)
(*   - the timing gate (MuseumAutomation.checkMuseumTimingStatus),         *)
(*   - the manual-booking log (ManualMuseumBooking),                       *)
(*   - the escalation orchestrators of MuseumAutomation                    *)
(*     (implementClientPlaceIntegration, createGuaranteedClientPlaceBooking)*)
(*     with the browser handles the shared instance keeps in this.browser  *)
(*     and this.page,                                                      *)
(*   - the verification records of ClientPlaceStorageService,              *)
(*   - the createAppointment handlers that call the booking strategies,    *)
(*   - the ID number validators of the verification services,              *)
(*   - the loops of the API strategies over their candidate endpoints,     *)
(*   - the filling of the booking form by the browser strategies,          *)
(*   - the choice of the booking site URL the browser navigates to,        *)
(*   - RealMuseumIntegrationService.createRealMuseumBooking.                *)
(***************************************************************************)
EXTENDS Integers, Sequences, FiniteSets, TLC

VARIABLES
    minute,      \* wall-clock minute of the day in Asia/Shanghai
    timing,      \* last value returned by checkMuseumTimingStatus
    logFile,     \* museum-bookings.json: [exists, parses, writable, records]
    now,         \* Date.now()
    manualOut,   \* what the last ManualMuseumBooking calls returned
    pc,          \* per request: position in the orchestration run
    kind,        \* per request: which entry point runs
    req,         \* per request: the BookingData handed in
    pos,         \* per request: index of the current tier in the tier list
    invoked,     \* per request: strategies invoked so far, in order
    rets,        \* per request: what each invoked strategy returned
    sres,        \* per request: result a browser strategy holds while its finally runs
    result,      \* per request: the BookingResult delivered to the caller
    nres,        \* per request: number of results delivered
    browser,     \* MuseumAutomation.browser (0 = undefined/null)
    page,        \* MuseumAutomation.page (0 = undefined/null, else its browser)
    bstate,      \* per launched browser: "none", "open", "closed"
    owner,       \* per launched browser: the request whose invocation launched it
    closeFailed, \* per launched browser: a close() call on it rejected
    foreign,     \* uses of a browser session by an invocation that did not launch it
    cpb,         \* ClientPlaceBooking collection: bookingId -> document
    hist,        \* the last calls made on the ClientPlaceBooking collection
    ops,         \* per storage call in flight: where it stands and the document it holds
    lookup,      \* the museum lookup in progress: [fn, i, seen, returned]
    variant,     \* which createAppointment the server runs
    ctl,         \* per client: the createAppointment call serving its request
    appts,       \* the Appointment collection
    idCheck,     \* an ID number and what the two validators returned for it
    api,         \* the API strategy in progress: [fn, i, seen, last, returned, threw, done]
    form,        \* the form field being filled: [fn, field, present, j, typed, filled]
    nav,         \* the navigation in progress: [fn, env, i, visited, loaded, done]
    rmi          \* createRealMuseumBooking in progress: [pc, canBook, i, calls, result]

timingVars == <<minute, timing>>
manualVars == <<logFile, now, manualOut>>
orchVars == <<pc, kind, req, pos, invoked, rets, sres, result, nres>>
browserVars == <<browser, page, bstate, owner, closeFailed, foreign>>
verifyVars == <<cpb, hist, ops, lookup>>
ctlVars == <<variant, ctl, appts>>
vars == <<timingVars, manualVars, orchVars, browserVars, verifyVars, ctlVars, idCheck, api, form, nav, rmi>>

-----------------------------------------------------------------------------
(* Timing gate                                                             *)

MinutesPerDay == 24 * 60

releaseTime == 17 * 60

NoTiming == [status |-> "none", canBook |-> FALSE, hours |-> 0, minutes |-> 0, by |-> "none"]

\* JavaScript's % keeps the sign of the dividend
JsRem(a, b) == IF a >= 0 THEN a % b ELSE -((-a) % b)

\* Math.floor(a / b) for b > 0
FloorDiv(a, b) == IF a >= 0 THEN a \div b ELSE -(((-a) + b - 1) \div b)

checkMuseumTimingStatus(currentTime) ==
    LET timeUntilRelease == releaseTime - currentTime
        hoursUntilRelease == FloorDiv(timeUntilRelease, 60)
        minutesUntilRelease == JsRem(timeUntilRelease, 60)
        isBeforeRelease == currentTime < releaseTime
        isInReleaseWindow == currentTime >= releaseTime /\ currentTime <= releaseTime + 5
    IN  [status |-> IF isBeforeRelease THEN "before_release"
                    ELSE IF isInReleaseWindow THEN "in_release_window"
                    ELSE "after_release_window",
         canBook |-> (~isBeforeRelease) /\ isInReleaseWindow,
         hours |-> hoursUntilRelease,
         minutes |-> minutesUntilRelease,
         by |-> "MuseumAutomation"]

\* chinaTime.getHours() and chinaTime.getMinutes() at the minute currentTime
getHours(currentTime) == currentTime \div 60

getMinutes(currentTime) == currentTime % 60

\* checkMuseumTimingStatus of WorkingMuseumIntegration and of
\* PracticalMuseumIntegration, which are the same text: hours and minutes are
\* the two numbers of timeUntilRelease
workingCheckMuseumTimingStatus(currentTime, who) ==
    LET currentHour == getHours(currentTime)
        currentMinute == getMinutes(currentTime)
        releaseHour == 17
        releaseMinute == 0
        before == currentHour < releaseHour \/ (currentHour = releaseHour /\ currentMinute < releaseMinute)
        inWindow == currentHour = releaseHour /\ currentMinute < 5
        canBook == (~before) /\ inWindow
    IN  [status |-> IF before THEN "before_release"
                    ELSE IF inWindow THEN "in_release_window"
                    ELSE "after_release_window",
         canBook |-> canBook,
         hours |-> IF canBook THEN 0 ELSE releaseHour - currentHour,
         minutes |-> IF canBook THEN 0 ELSE releaseMinute - currentMinute,
         by |-> who]

\* the time-based fallback of RealMuseumIntegrationService.checkMuseumTiming
checkMuseumTiming(currentTime) ==
    LET currentHour == getHours(currentTime)
        currentMinute == getMinutes(currentTime)
        isReleaseWindow == currentHour = 17 /\ currentMinute >= 0 /\ currentMinute <= 5
    IN  [status |-> IF isReleaseWindow THEN "release_window" ELSE "before_release",
         canBook |-> isReleaseWindow,
         hours |-> 0,
         minutes |-> 0,
         by |-> "RealMuseumIntegrationService"]

-----------------------------------------------------------------------------
(* Manual-booking log (ManualMuseumBooking)                                *)

MaxClock == 2

MaxLog == 2

Pending == "pending_manual_booking"

NoRef == [prefix |-> "none", ts |-> 0]

NoUpdate == [id |-> NoRef, status |-> "none", hit |-> 0]

NoManual == [called |-> FALSE, success |-> FALSE, bookingReference |-> NoRef, updateThrew |-> FALSE,
             updated |-> NoUpdate]

\* A faulty log writer that writes the new record alone, without the records
\* read before
saveAlone(file, record) ==
    IF ~file.writable THEN [threw |-> TRUE, file |-> file]
    ELSE [threw |-> FALSE,
          file |-> [file EXCEPT !.exists = TRUE, !.parses = TRUE, !.records = <<record>>]]

\* fs.existsSync / readFileSync / JSON.parse / push / writeFileSync.
\* The value is [threw, file]: threw when the file cannot be parsed or written.
saveBookingRecord(file, record) ==
    IF file.exists /\ ~file.parses THEN [threw |-> TRUE, file |-> file]
    ELSE IF ~file.writable THEN [threw |-> TRUE, file |-> file]
    ELSE [threw |-> FALSE,
          file |-> [file EXCEPT !.exists = TRUE, !.parses = TRUE,
                                !.records = Append(IF file.exists THEN @ ELSE <<>>, record)]]

\* ManualMuseumBooking.attemptBooking: [result, file]
manualAttemptBooking(file, t, who) ==
    LET bookingRecord == [id |-> [prefix |-> "MANUAL", ts |-> t], status |-> Pending,
                          officialReference |-> 0, by |-> who]
        saved == saveBookingRecord(file, bookingRecord)
    IN  IF saved.threw
        THEN [result |-> [called |-> TRUE, success |-> FALSE, bookingReference |-> NoRef,
                          updateThrew |-> FALSE, updated |-> NoUpdate],
              file |-> saved.file]
        ELSE [result |-> [called |-> TRUE, success |-> TRUE,
                          bookingReference |-> bookingRecord.id, updateThrew |-> FALSE,
                          updated |-> NoUpdate],
              file |-> saved.file]

\* getPendingBookings: the records still pending; [] when the file is absent
\* or cannot be parsed
getPendingBookings(file) ==
    IF file.exists /\ file.parses
    THEN SelectSeq(file.records, LAMBDA b : b.status = Pending)
    ELSE <<>>

\* bookings.find(b => b.id === bookingId): the index of the first match, 0 for none
FindBooking(records, bookingId) ==
    IF \E i \in 1 .. Len(records) : records[i].id = bookingId
    THEN CHOOSE i \in 1 .. Len(records) :
            /\ records[i].id = bookingId
            /\ \A j \in 1 .. i - 1 : records[j].id # bookingId
    ELSE 0

\* A faulty update that writes the status into every record of the log
updateEveryRecord(file, bookingId, status, officialReference) ==
    IF ~file.exists \/ ~file.parses \/ ~file.writable THEN [threw |-> TRUE, file |-> file]
    ELSE [threw |-> FALSE,
          file |-> [file EXCEPT !.records = [i \in 1 .. Len(@) |-> [@[i] EXCEPT !.status = status]]]]

\* updateBookingStatus: [threw, file].  An absent, unparseable or unwritable
\* file throws; an id that is not in the log rewrites the file as it was.
updateBookingStatus(file, bookingId, status, officialReference) ==
    IF ~file.exists \/ ~file.parses \/ ~file.writable THEN [threw |-> TRUE, file |-> file]
    ELSE LET i == FindBooking(file.records, bookingId)
         IN  IF i = 0 THEN [threw |-> FALSE, file |-> file]
             ELSE [threw |-> FALSE,
                   file |-> [file EXCEPT !.records[i].status = status,
                                         !.records[i].officialReference =
                                             IF officialReference # 0 THEN officialReference ELSE @]]

\* The states the log file can be found in: absent, present and well formed,
\* present and not parseable; on a writable or a read-only volume.
LogFiles ==
    {f \in [exists : BOOLEAN, parses : BOOLEAN, writable : BOOLEAN, records : {<<>>}] :
        (~f.exists) => f.parses}

-----------------------------------------------------------------------------
(* MuseumAutomation: strategies                                            *)

\* The orchestration run under study is request Run; the other requests are
\* callers that use the browser methods of the same exported instance while the
\* run is in flight.
NumCallers == 1

MaxBrowsers == 3

Requests == 1 .. 1 + NumCallers

Run == CHOOSE p \in Requests : \A q \in Requests : p <= q

Browsers == 1 .. MaxBrowsers

\* What the external platform answers to one API strategy (all its candidate
\* endpoints taken together): no endpoint answered 2xx; a 2xx JSON body that
\* carries a bookingId; a 2xx JSON body without one that holds a success word;
\* a 2xx JSON body without either.
Responses == {"error", "ok_id", "ok_plain", "ok_nomarker"}

External == [prefix |-> "external", ts |-> 0]

BookingResult(ok, ref, src) ==
    [success |-> ok, bookingReference |-> ref, source |-> src, verified |-> FALSE, status |-> "none"]

Failure(src) == BookingResult(FALSE, NoRef, src)

NoResult == BookingResult(FALSE, NoRef, "none")

\* response.ok, then bookingReference: data.bookingId || `<PREFIX>-${Date.now()}`
JsonApi(name, prefix, resp, t) ==
    IF resp = "error" THEN Failure(name)
    ELSE BookingResult(TRUE, IF resp = "ok_id" THEN External ELSE [prefix |-> prefix, ts |-> t], name)

\* response.ok, then bookingReference: result.bookingReference || `API-${Date.now()}`
tryApiBooking(resp, t) ==
    IF resp = "error" THEN Failure("attemptBooking")
    ELSE BookingResult(TRUE, [prefix |-> "API", ts |-> t], "attemptBooking")

tryEnhancedMuseumAPI(resp, t) == JsonApi("tryEnhancedMuseumAPI", "ENHANCED", resp, t)

tryWeChatOfficialAccount(resp, t) == JsonApi("tryWeChatOfficialAccount", "WECHAT-OA", resp, t)

tryRealisticMobileApp(resp, t) == JsonApi("tryRealisticMobileApp", "MOBILE-APP", resp, t)

tryRealMuseumAPI(resp, t) == JsonApi("tryRealMuseumAPI", "MUSEUM_API_", resp, t)

\* response.ok and the body text includes a success word; the reference is
\* always `DIRECT-${Date.now()}`
tryDirectClientPlaceBooking(resp, t) ==
    IF resp \in {"ok_id", "ok_plain"}
    THEN BookingResult(TRUE, [prefix |-> "DIRECT", ts |-> t], "tryDirectClientPlaceBooking")
    ELSE Failure("tryDirectClientPlaceBooking")

\* generateMuseumBookingId throws on a visitDate that is no date; the catch
\* turns that into a failure result
\* bookingStatus of trySimulatedMuseumBooking at the minute currentTime
bookingStatus(currentTime) ==
    LET isInReleaseWindow == currentTime >= releaseTime /\ currentTime <= releaseTime + 5
        isBeforeRelease == currentTime < releaseTime
        isAfterReleaseWindow == currentTime > releaseTime + 5
    IN  IF isBeforeRelease THEN "pending_release"
        ELSE IF isInReleaseWindow THEN "confirmed"
        ELSE IF isAfterReleaseWindow THEN "expired"
        ELSE "confirmed"

\* A faulty simulated booking that refuses outside the release window
simulatedOnlyInWindow(data, t, currentTime) ==
    IF data.dateValid /\ bookingStatus(currentTime) = "confirmed"
    THEN [BookingResult(TRUE, [prefix |-> "SXHM", ts |-> t], "trySimulatedMuseumBooking")
            EXCEPT !.status = "confirmed"]
    ELSE Failure("trySimulatedMuseumBooking")

trySimulatedMuseumBooking(data, t, currentTime) ==
    IF data.dateValid
    THEN [BookingResult(TRUE, [prefix |-> "SXHM", ts |-> t], "trySimulatedMuseumBooking")
            EXCEPT !.status = bookingStatus(currentTime)]
    ELSE Failure("trySimulatedMuseumBooking")

ApiTiers ==
    {"tryEnhancedMuseumAPI", "tryWeChatOfficialAccount", "tryRealisticMobileApp",
     "tryRealMuseumAPI", "tryDirectClientPlaceBooking"}

RunApi(name, resp, t) ==
    CASE name = "tryEnhancedMuseumAPI" -> tryEnhancedMuseumAPI(resp, t)
      [] name = "tryWeChatOfficialAccount" -> tryWeChatOfficialAccount(resp, t)
      [] name = "tryRealisticMobileApp" -> tryRealisticMobileApp(resp, t)
      [] name = "tryRealMuseumAPI" -> tryRealMuseumAPI(resp, t)
      [] OTHER -> tryDirectClientPlaceBooking(resp, t)

\* The strategies of implementClientPlaceIntegration in the order of its
\* steps 1-5; step 5, createVerifiedManualBooking, is the direct client place
\* attempt followed by the manual record.
IntegrationTiers ==
    <<"tryEnhancedMuseumAPI", "tryWeChatOfficialAccount", "tryRealisticMobileApp",
      "tryMaximumStealthAutomation", "tryDirectClientPlaceBooking", "manualFallback">>

\* The strategies of createGuaranteedClientPlaceBooking in the order of its code
GuaranteedTiers ==
    <<"tryRealMuseumAPI", "attemptBooking", "trySimulatedMuseumBooking",
      "tryDirectClientPlaceBooking", "tryEnhancedMuseumAPI", "tryWeChatOfficialAccount",
      "tryRealisticMobileApp", "tryDirectClientPlaceBooking", "manualFallback">>

Tiers(k) ==
    CASE k = "integration" -> IntegrationTiers
      [] k = "guaranteed" -> GuaranteedTiers
      [] k = "legacy" -> <<"attemptBooking">>
      [] OTHER -> <<"checkAvailability">>

\* What a request calls: the run one of the two orchestrators, another caller
\* attemptBooking or checkAvailability
Kinds(p) == IF p = Run THEN {"integration", "guaranteed"} ELSE {"legacy", "availability"}

-----------------------------------------------------------------------------
(* MuseumAutomation: the shared browser handles                            *)

InFlight(q) == pc[q] \notin {"idle", "done"}

CanLaunch == \E b \in Browsers : bstate[b] = "none"

\* puppeteer.launch() hands out a new browser
FreshBrowser == CHOOSE b \in Browsers : bstate[b] = "none" /\ \A c \in Browsers : bstate[c] = "none" => b <= c

Mine(p) == {b \in Browsers : owner[b] = p}

\* the browser the invocation of p launched last
Latest(p) == CHOOSE b \in Mine(p) : \A c \in Mine(p) : c <= b

\* this.page.<operation>() works: the handle is set and its browser is open
PageUsable == page # 0 /\ bstate[page] = "open"

\* Remember an operation of p on the session g when g was launched by another
\* invocation that is still running
NoteUse(p, g, op) ==
    IF g # 0 /\ owner[g] # p /\ InFlight(owner[g])
    THEN foreign \cup {[by |-> p, of |-> owner[g]]}
    ELSE foreign

\* await b.close(): resolves (the browser is closed) or rejects
CloseCall(b, resolves) ==
    /\ bstate' = IF resolves THEN [bstate EXCEPT ![b] = "closed"] ELSE bstate
    /\ closeFailed' = IF resolves THEN closeFailed ELSE [closeFailed EXCEPT ![b] = TRUE]

-----------------------------------------------------------------------------
(* MuseumAutomation: the orchestrators                                     *)

TierName(p) == Tiers(kind[p])[pos[p]]

\* A faulty orchestrator that falls through to the next strategy whatever
\* the last one returned
ContinueAlways(r) == TRUE

\* `if (result.success) return ...` : the run goes on to the next strategy
\* only after a failure
Continue(r) == ~r.success

\* The successes createGuaranteedClientPlaceBooking verifies before returning:
\* the real museum API and the four alternative approaches
VerifiedTier(k, i) == k = "guaranteed" /\ i \in {1, 4, 5, 6, 7}

\* the index of the strategy tried after the one at index i failed
NextPos(i) == i + 1

\* A faulty orchestrator that hands a result to its caller and goes on running
DeliverNoReturn(p, r) ==
    /\ result' = [result EXCEPT ![p] = r]
    /\ nres' = [nres EXCEPT ![p] = @ + 1]
    /\ pc' = [pc EXCEPT ![p] = "tier"]

\* `return r`: the caller receives r and the run is over
Deliver(p, r) ==
    /\ result' = [result EXCEPT ![p] = r]
    /\ nres' = [nres EXCEPT ![p] = @ + 1]
    /\ pc' = [pc EXCEPT ![p] = "done"]

\* The strategy at pos[p] has returned r, or has thrown: what the orchestrator
\* does next.  An exception ends in the catch of the orchestrator, which
\* returns a failure; attemptBooking and checkAvailability called on their own
\* let it reach their caller.
AfterReturn(p, r, threw) ==
    /\ rets' = [rets EXCEPT ![p] = Append(@, [name |-> TierName(p), success |-> r.success /\ ~threw, threw |-> threw])]
    /\ IF threw
       THEN /\ Deliver(p, Failure(IF kind[p] \in {"integration", "guaranteed"} THEN "orchestrator catch" ELSE "exception"))
            /\ UNCHANGED <<pos, sres>>
       ELSE IF ~Continue(r)
       THEN IF VerifiedTier(kind[p], pos[p])
            THEN /\ pc' = [pc EXCEPT ![p] = "verify"]
                 /\ sres' = [sres EXCEPT ![p] = r]
                 /\ UNCHANGED <<pos, result, nres>>
            ELSE /\ Deliver(p, r)
                 /\ UNCHANGED <<pos, sres>>
       ELSE IF pos[p] < Len(Tiers(kind[p]))
       THEN /\ pos' = [pos EXCEPT ![p] = NextPos(@)]
            /\ pc' = [pc EXCEPT ![p] = "tier"]
            /\ UNCHANGED <<sres, result, nres>>
       ELSE /\ Deliver(p, r)
            /\ UNCHANGED <<pos, sres>>

\* A faulty orchestrator that calls a strategy and the one after it together
InvokeWithNext(p) ==
    invoked' = [invoked EXCEPT ![p] =
                  IF pos[p] < Len(Tiers(kind[p]))
                  THEN Append(Append(@, TierName(p)), Tiers(kind[p])[pos[p] + 1])
                  ELSE Append(@, TierName(p))]

\* `await this.<strategy>(bookingData)`: the strategy at pos[p] is called
Invoke(p) == invoked' = [invoked EXCEPT ![p] = Append(@, TierName(p))]

\* Whether visitDate is a date, which only trySimulatedMuseumBooking depends on
Dates(k) == IF k = "guaranteed" THEN BOOLEAN ELSE {TRUE}

\* A caller starts one run
Start(p) ==
    /\ pc[p] = "idle"
    /\ \E k \in Kinds(p) : \E valid \in Dates(k) :
         /\ kind' = [kind EXCEPT ![p] = k]
         /\ req' = [req EXCEPT ![p] = [dateValid |-> valid]]
    /\ pc' = [pc EXCEPT ![p] = "tier"]
    /\ pos' = [pos EXCEPT ![p] = 1]
    /\ UNCHANGED <<invoked, rets, sres, result, nres>>
    /\ UNCHANGED <<timingVars, manualVars, browserVars, verifyVars, ctlVars, idCheck, api, form, nav, rmi>>

\* One fetch-based strategy, from its call to its return
ApiTier(p) ==
    /\ pc[p] = "tier"
    /\ TierName(p) \in ApiTiers
    /\ Invoke(p)
    /\ \E resp \in Responses : AfterReturn(p, RunApi(TierName(p), resp, now), FALSE)
    /\ UNCHANGED <<kind, req>>
    /\ UNCHANGED <<timingVars, manualVars, browserVars, verifyVars, ctlVars, idCheck, api, form, nav, rmi>>

SimulatedTier(p) ==
    /\ pc[p] = "tier"
    /\ TierName(p) = "trySimulatedMuseumBooking"
    /\ Invoke(p)
    /\ AfterReturn(p, trySimulatedMuseumBooking(req[p], now, minute), FALSE)
    /\ UNCHANGED <<kind, req>>
    /\ UNCHANGED <<timingVars, manualVars, browserVars, verifyVars, ctlVars, idCheck, api, form, nav, rmi>>

\* createVerifiedManualBooking after its direct attempt failed: the record is
\* handed to manualMuseumBooking.attemptBooking, whose result is dropped, and
\* success is returned with `VERIFIED-${Date.now()}`
createVerifiedManualBooking(t) ==
    BookingResult(TRUE, [prefix |-> "VERIFIED", ts |-> t], "manualFallback")

ManualTier(p) ==
    /\ pc[p] = "tier"
    /\ TierName(p) = "manualFallback"
    /\ Invoke(p)
    /\ LET m == manualAttemptBooking(logFile, now, p)
       IN  /\ logFile' = m.file
           /\ manualOut' = [m.result EXCEPT !.updateThrew = manualOut.updateThrew,
                                             !.updated = manualOut.updated]
    /\ AfterReturn(p, createVerifiedManualBooking(now), FALSE)
    /\ UNCHANGED <<kind, req, now>>
    /\ UNCHANGED <<timingVars, browserVars, verifyVars, ctlVars, idCheck, api, form, nav, rmi>>

\* verifyBookingInClientPlace / verifyClientPlaceBooking after a success:
\* the result is returned either way, marked when the booking was found
VerifyStep(p) ==
    /\ pc[p] = "verify"
    /\ \E found \in BOOLEAN : Deliver(p, [sres[p] EXCEPT !.verified = found])
    /\ UNCHANGED <<kind, req, pos, invoked, rets, sres>>
    /\ UNCHANGED <<timingVars, manualVars, browserVars, verifyVars, ctlVars, idCheck, api, form, nav, rmi>>

-----------------------------------------------------------------------------
(* MuseumAutomation: the browser strategies                                *)

\* initialize(): this.browser = await puppeteer.launch(...).  The launch
\* resolves with a new browser, or rejects and the catch of the strategy
\* makes a failure of it.
LaunchStep(p, okPc, failPc, name) ==
    \/ /\ CanLaunch
       /\ LET b == FreshBrowser
          IN  /\ browser' = b
              /\ bstate' = [bstate EXCEPT ![b] = "open"]
              /\ owner' = [owner EXCEPT ![b] = p]
       /\ pc' = [pc EXCEPT ![p] = okPc]
       /\ UNCHANGED <<page, closeFailed, foreign, sres>>
    \/ /\ sres' = [sres EXCEPT ![p] = Failure(name)]
       /\ pc' = [pc EXCEPT ![p] = failPc]
       /\ UNCHANGED browserVars

\* initialize(): this.page = await this.browser.newPage(), asked of the browser
\* just launched; it rejects when that browser has been closed meanwhile
NewPageStep(p, okPc, failPc, name) ==
    IF bstate[Latest(p)] = "open"
    THEN /\ page' = Latest(p)
         /\ pc' = [pc EXCEPT ![p] = okPc]
         /\ UNCHANGED <<browser, bstate, owner, closeFailed, foreign, sres>>
    ELSE /\ sres' = [sres EXCEPT ![p] = Failure(name)]
         /\ pc' = [pc EXCEPT ![p] = failPc]
         /\ UNCHANGED browserVars

\* A run of operations on this.page that ends the strategy with result r
PageEnds(p, r, failPc) ==
    /\ sres' = [sres EXCEPT ![p] = r]
    /\ pc' = [pc EXCEPT ![p] = failPc]
    /\ foreign' = NoteUse(p, page, "page")
    /\ UNCHANGED <<browser, page, bstate, owner, closeFailed>>

\* A run of operations on this.page after which the strategy goes on
PageGoesOn(p, nextPc) ==
    /\ PageUsable
    /\ pc' = [pc EXCEPT ![p] = nextPc]
    /\ foreign' = NoteUse(p, page, "page")
    /\ UNCHANGED <<browser, page, bstate, owner, closeFailed, sres>>

BrowserFrame ==
    /\ UNCHANGED <<kind, req, pos, invoked, rets, result, nres>>
    /\ UNCHANGED <<timingVars, manualVars, verifyVars, ctlVars, idCheck, api, form, nav, rmi>>

(* tryMaximumStealthAutomation *)

Stealth == "tryMaximumStealthAutomation"

StLaunch(p) ==
    /\ pc[p] = "tier"
    /\ TierName(p) = Stealth
    /\ Invoke(p)
    /\ LaunchStep(p, "st_newpage", "st_finally", Stealth)
    /\ UNCHANGED <<kind, req, pos, rets, result, nres>>
    /\ UNCHANGED <<timingVars, manualVars, verifyVars, ctlVars, idCheck, api, form, nav, rmi>>

StNewPage(p) ==
    /\ pc[p] = "st_newpage"
    /\ NewPageStep(p, "st_nav", "st_finally", Stealth)
    /\ BrowserFrame

\* the page set-up of initialize(), setExtraHTTPHeaders and goto: any of them
\* throwing ends in the catch
StNavigate(p) ==
    /\ pc[p] = "st_nav"
    /\ \/ PageGoesOn(p, "st_book")
       \/ PageEnds(p, Failure(Stealth), "st_finally")
    /\ BrowserFrame

\* page.content() and attemptStealthBooking: no form or no success marker is a
\* failure, a success marker gives `STEALTH-${Date.now()}`
StBook(p) ==
    /\ pc[p] = "st_book"
    /\ \/ /\ PageUsable
          /\ PageEnds(p, BookingResult(TRUE, [prefix |-> "STEALTH", ts |-> now], Stealth), "st_finally")
       \/ PageEnds(p, Failure(Stealth), "st_finally")
    /\ BrowserFrame

(* attemptBooking *)

Attempt == "attemptBooking"

AbApi(p) ==
    /\ pc[p] = "tier"
    /\ TierName(p) = Attempt
    /\ Invoke(p)
    /\ \E resp \in Responses :
         LET apiResult == tryApiBooking(resp, now)
         IN  IF apiResult.success
             THEN /\ sres' = [sres EXCEPT ![p] = apiResult]
                  /\ pc' = [pc EXCEPT ![p] = "ab_finally"]
             ELSE /\ pc' = [pc EXCEPT ![p] = "ab_launch"]
                  /\ UNCHANGED sres
    /\ UNCHANGED <<kind, req, pos, rets, result, nres>>
    /\ UNCHANGED <<timingVars, manualVars, browserVars, verifyVars, ctlVars, idCheck, api, form, nav, rmi>>

AbLaunch(p) ==
    /\ pc[p] = "ab_launch"
    /\ LaunchStep(p, "ab_newpage", "ab_finally", Attempt)
    /\ BrowserFrame

AbNewPage(p) ==
    /\ pc[p] = "ab_newpage"
    /\ NewPageStep(p, "ab_nav", "ab_finally", Attempt)
    /\ BrowserFrame

\* the page set-up of initialize(), setExtraHTTPHeaders, then goto over
\* possibleUrls: a throw outside the loop ends in the catch, no URL reached
\* leads to the mobile retry
AbNavigate(p) ==
    /\ pc[p] = "ab_nav"
    /\ \/ PageGoesOn(p, "ab_form")
       \/ PageGoesOn(p, "ab_mclose")
       \/ /\ ~PageUsable
          /\ PageEnds(p, Failure(Attempt), "ab_finally")
    /\ BrowserFrame

\* mobile retry: await this.browser.close(); a null handle or a rejected
\* close ends in the catch of the retry, and the failure is returned
AbMobileClose(p) ==
    /\ pc[p] = "ab_mclose"
    /\ IF browser = 0
       THEN /\ sres' = [sres EXCEPT ![p] = Failure(Attempt)]
            /\ pc' = [pc EXCEPT ![p] = "ab_finally"]
            /\ UNCHANGED browserVars
       ELSE \E resolves \in BOOLEAN :
            /\ CloseCall(browser, resolves)
            /\ foreign' = NoteUse(p, browser, "close")
            /\ IF resolves
               THEN /\ pc' = [pc EXCEPT ![p] = "ab_mnull"]
                    /\ UNCHANGED sres
               ELSE /\ sres' = [sres EXCEPT ![p] = Failure(Attempt)]
                    /\ pc' = [pc EXCEPT ![p] = "ab_finally"]
            /\ UNCHANGED <<browser, page, owner>>
    /\ BrowserFrame

\* mobile retry: this.browser = null; this.page = null; puppeteer.launch(...)
AbMobileNull(p) ==
    /\ pc[p] = "ab_mnull"
    /\ browser' = 0
    /\ page' = 0
    /\ pc' = [pc EXCEPT ![p] = "ab_mlaunch"]
    /\ UNCHANGED <<bstate, owner, closeFailed, foreign, sres>>
    /\ BrowserFrame

AbMobileLaunch(p) ==
    /\ pc[p] = "ab_mlaunch"
    /\ LaunchStep(p, "ab_mnewpage", "ab_finally", Attempt)
    /\ BrowserFrame

AbMobileNewPage(p) ==
    /\ pc[p] = "ab_mnewpage"
    /\ NewPageStep(p, "ab_mnav", "ab_finally", Attempt)
    /\ BrowserFrame

\* mobile retry: page set-up and goto(mobileUrl); status 200 goes on, anything
\* else returns the failure
AbMobileNavigate(p) ==
    /\ pc[p] = "ab_mnav"
    /\ \/ PageGoesOn(p, "ab_form")
       \/ PageEnds(p, Failure(Attempt), "ab_finally")
    /\ BrowserFrame

\* title, screenshot, $$('input, select, button') and the alternative
\* selectors: a page without any interactive element returns the simulated
\* success `SIMULATED-${Date.now()}`
AbForm(p) ==
    /\ pc[p] = "ab_form"
    /\ \/ PageGoesOn(p, "ab_submit")
       \/ /\ PageUsable
          /\ PageEnds(p, BookingResult(TRUE, [prefix |-> "SIMULATED", ts |-> now], Attempt), "ab_finally")
       \/ /\ ~PageUsable
          /\ PageEnds(p, Failure(Attempt), "ab_finally")
    /\ BrowserFrame

\* fillBookingForm, submit, wait for the result, success and error markers
AbSubmit(p) ==
    /\ pc[p] = "ab_submit"
    /\ \/ /\ PageUsable
          /\ \E ref \in {External, [prefix |-> "MUSEUM", ts |-> now]} :
               PageEnds(p, BookingResult(TRUE, ref, Attempt), "ab_finally")
       \/ PageEnds(p, Failure(Attempt), "ab_finally")
    /\ BrowserFrame

(* checkAvailability *)

Check == "checkAvailability"

CaLaunch(p) ==
    /\ pc[p] = "tier"
    /\ TierName(p) = Check
    /\ Invoke(p)
    /\ LaunchStep(p, "ca_newpage", "ca_finally", Check)
    /\ UNCHANGED <<kind, req, pos, rets, result, nres>>
    /\ UNCHANGED <<timingVars, manualVars, verifyVars, ctlVars, idCheck, api, form, nav, rmi>>

CaNewPage(p) ==
    /\ pc[p] = "ca_newpage"
    /\ NewPageStep(p, "ca_page", "ca_finally", Check)
    /\ BrowserFrame

\* goto, waitForSelector, $eval('.availability-result'): true, false, or a
\* throw that the catch turns into false
CaPage(p) ==
    /\ pc[p] = "ca_page"
    /\ \/ /\ PageUsable
          /\ PageEnds(p, BookingResult(TRUE, NoRef, Check), "ca_finally")
       \/ PageEnds(p, Failure(Check), "ca_finally")
    /\ BrowserFrame

\* finally { if (this.browser) await this.browser.close() } of the three
\* strategies: a rejected close leaves the strategy as an exception
Finally(p) ==
    /\ pc[p] \in {"st_finally", "ab_finally", "ca_finally"}
    /\ IF browser = 0
       THEN /\ AfterReturn(p, sres[p], FALSE)
            /\ UNCHANGED browserVars
       ELSE \E resolves \in BOOLEAN :
            /\ CloseCall(browser, resolves)
            /\ foreign' = NoteUse(p, browser, "close")
            /\ AfterReturn(p, sres[p], ~resolves)
            /\ UNCHANGED <<browser, page, owner>>
    /\ UNCHANGED <<kind, req, invoked>>
    /\ UNCHANGED <<timingVars, manualVars, verifyVars, ctlVars, idCheck, api, form, nav, rmi>>

-----------------------------------------------------------------------------
(* ClientPlaceStorageService: verification records                         *)

NumBookings == 2

MaxAttempts == 3

BookingIds == 1 .. NumBookings

NoDoc == [exists |-> FALSE, clientPlaceStatus |-> "none", verificationAttempts |-> 0]

\* storeClientPlaceBooking: new ClientPlaceBooking({... clientPlaceStatus:
\* 'pending', verificationAttempts: 0}).save()
storeClientPlaceBooking ==
    [exists |-> TRUE, clientPlaceStatus |-> "pending", verificationAttempts |-> 0]

\* A faulty verification that writes the outcome of the lookup into the status
\* either way
verifyOverwrites(doc, verificationResult) ==
    [doc EXCEPT !.verificationAttempts = @ + 1,
                !.clientPlaceStatus = IF verificationResult THEN "verified" ELSE "pending"]

\* verifyClientPlaceBooking on the document found: the attempt is counted,
\* the status becomes 'verified' when the museum lookup finds the booking and
\* is left as it is otherwise; then save()
verifyClientPlaceBooking(doc, verificationResult) ==
    LET counted == [doc EXCEPT !.verificationAttempts = @ + 1]
    IN  IF verificationResult
        THEN [counted EXCEPT !.clientPlaceStatus = "verified"]
        ELSE counted

Store(id) ==
    /\ ~cpb[id].exists
    /\ cpb' = [cpb EXCEPT ![id] = storeClientPlaceBooking]
    /\ hist' = <<>>
    /\ UNCHANGED <<ops, lookup>>
    /\ UNCHANGED <<timingVars, manualVars, orchVars, browserVars, ctlVars, idCheck, api, form, nav, rmi>>

\* One verifyClientPlaceBooking(bookingId) call, from findOne to its return;
\* hist keeps the last two calls with the document each one found
Verify(id) ==
    /\ cpb[id].verificationAttempts < MaxAttempts
    /\ \E found \in BOOLEAN :
         /\ cpb' = IF cpb[id].exists
                   THEN [cpb EXCEPT ![id] = verifyClientPlaceBooking(@, found)]
                   ELSE cpb
         /\ hist' = (IF hist = <<>> THEN <<>> ELSE <<hist[Len(hist)]>>) \o
                    <<[id |-> id, found |-> found, before |-> cpb[id]]>>
    /\ UNCHANGED <<ops, lookup>>
    /\ UNCHANGED <<timingVars, manualVars, orchVars, browserVars, ctlVars, idCheck, api, form, nav, rmi>>

(* The same calls with their awaits: several storage calls in flight *)

NumWorkers == 3

Workers == 1 .. NumWorkers

Statuses == {"pending", "confirmed", "failed", "verified"}

Idle == [pc |-> "idle", id |-> 0, doc |-> NoDoc]

StorageFrame == UNCHANGED <<timingVars, manualVars, orchVars, browserVars, lookup, ctlVars, idCheck, api, form, nav, rmi>>

\* clientPlaceBooking.save() of a document obtained earlier: the paths set on
\* the local copy are written over the stored document, the others are left
saveModified(stored, local, paths) ==
    [stored EXCEPT
        !.verificationAttempts = IF "verificationAttempts" \in paths THEN local.verificationAttempts ELSE @,
        !.clientPlaceStatus = IF "clientPlaceStatus" \in paths THEN local.clientPlaceStatus ELSE @]

\* verifyClientPlaceBooking up to its await of the museum lookup: findOne,
\* then the attempt counted on the local copy
VerifyFind(w, id) ==
    /\ ops[w].pc = "idle"
    /\ cpb[id].exists
    /\ cpb[id].verificationAttempts < MaxAttempts
    /\ ops' = [ops EXCEPT ![w] = [pc |-> "verify", id |-> id, doc |-> cpb[id]]]
    /\ UNCHANGED <<cpb, hist>>
    /\ StorageFrame

\* verifyClientPlaceBooking after the lookup has answered: save()
VerifySave(w) ==
    /\ ops[w].pc = "verify"
    /\ \E found \in BOOLEAN :
         LET local == verifyClientPlaceBooking(ops[w].doc, found)
             paths == {"verificationAttempts"} \cup (IF found THEN {"clientPlaceStatus"} ELSE {})
         IN  cpb' = [cpb EXCEPT ![ops[w].id] = saveModified(@, local, paths)]
    /\ ops' = [ops EXCEPT ![w] = Idle]
    /\ UNCHANGED hist
    /\ StorageFrame

\* bookInMuseumSystem up to its await of createRealMuseumBooking: the record
\* is stored first
BookStore(w, id) ==
    /\ ops[w].pc = "idle"
    /\ ~cpb[id].exists
    /\ cpb' = [cpb EXCEPT ![id] = storeClientPlaceBooking]
    /\ ops' = [ops EXCEPT ![w] = [pc |-> "book", id |-> id, doc |-> storeClientPlaceBooking]]
    /\ UNCHANGED hist
    /\ StorageFrame

\* bookInMuseumSystem after the museum booking has answered: 'confirmed' or
\* 'failed', then save()
BookSave(w) ==
    /\ ops[w].pc = "book"
    /\ \E museumOk \in BOOLEAN :
         LET local == [ops[w].doc EXCEPT !.clientPlaceStatus = IF museumOk THEN "confirmed" ELSE "failed"]
         IN  cpb' = [cpb EXCEPT ![ops[w].id] = saveModified(@, local, {"clientPlaceStatus"})]
    /\ ops' = [ops EXCEPT ![w] = Idle]
    /\ UNCHANGED hist
    /\ StorageFrame

\* updateClientPlaceBookingStatus: one updateOne({bookingId}, {clientPlaceStatus})
updateClientPlaceBookingStatus(doc, status) ==
    IF doc.exists THEN [doc EXCEPT !.clientPlaceStatus = status] ELSE doc

UpdateRecordStatus(id) ==
    /\ \E status \in Statuses : cpb' = [cpb EXCEPT ![id] = updateClientPlaceBookingStatus(@, status)]
    /\ cpb' # cpb
    /\ UNCHANGED <<hist, ops>>
    /\ StorageFrame

-----------------------------------------------------------------------------
(* MuseumAutomation: the museum lookups verifyClientPlaceBooking and       *)
(* verifyBookingInClientPlace                                              *)

verificationEndpoints == 5

clientPlaceEndpoints == 8

\* the endpoints of RealMuseumIntegrationService.verifyInClientPlace
realVerificationEndpoints == 4

Lookups == {"verifyClientPlaceBooking", "verifyBookingInClientPlace", "verifyInClientPlace"}

Endpoints(fn) ==
    CASE fn = "verifyClientPlaceBooking" -> verificationEndpoints
      [] fn = "verifyInClientPlace" -> realVerificationEndpoints
      [] OTHER -> clientPlaceEndpoints

\* What one candidate endpoint does: building the request throws; fetch
\* rejects on a network error or on a timeout; the status is not 2xx; the body
\* is not JSON; the body is JSON null; the body is an object without a marker;
\* the body is an object with a found/verified marker.
Outcomes ==
    {"request_throws", "network_error", "timeout", "non_2xx", "malformed_body", "null_body",
     "no_marker", "marker"}

\* A faulty loop whose body parsing is not inside the try of the endpoint
afterEndpointUnguarded(outcome) ==
    CASE outcome = "marker" -> "found"
      [] outcome \in {"malformed_body", "null_body"} -> "throw"
      [] OTHER -> "next"

\* A faulty loop that asks the next endpoint whatever the last one answered
afterEndpointNoStop(outcome) == "next"

\* The body of the loop over the endpoints: every throw is caught by the try
\* around one endpoint, and the loop goes on with the next
afterEndpoint(outcome) ==
    CASE outcome = "marker" -> "found"
      [] OTHER -> "next"

NoLookup == [fn |-> "none", i |-> 0, seen |-> {}, returned |-> "none"]

LookupFrame == UNCHANGED <<timingVars, manualVars, orchVars, browserVars, cpb, hist, ops, ctlVars, idCheck, api, form, nav, rmi>>

LookupStart(fn) ==
    /\ lookup.fn = "none" \/ lookup.returned # "none"
    /\ lookup' = [fn |-> fn, i |-> 0, seen |-> {}, returned |-> "none"]
    /\ LookupFrame

LookupEndpoint ==
    /\ lookup.fn # "none"
    /\ lookup.returned = "none"
    /\ lookup.i < Endpoints(lookup.fn)
    /\ \E outcome \in Outcomes :
         lookup' = [lookup EXCEPT
                      !.i = @ + 1,
                      !.seen = @ \cup {outcome},
                      !.returned = CASE afterEndpoint(outcome) = "found" -> "true"
                                     [] afterEndpoint(outcome) = "throw" -> "threw"
                                     [] OTHER -> "none"]
    /\ LookupFrame

\* `return { found: false }` / `return false` after the loop
LookupReturn ==
    /\ lookup.fn # "none"
    /\ lookup.returned = "none"
    /\ lookup.i = Endpoints(lookup.fn)
    /\ lookup' = [lookup EXCEPT !.returned = "false"]
    /\ LookupFrame

-----------------------------------------------------------------------------
(* createAppointment                                                       *)

\* Two createAppointment handlers are in the sources: the one that calls
\* museumAutomation.createGuaranteedClientPlaceBooking and falls back to the
\* manual log, and the one that calls workingMuseumIntegration and the
\* complete verification.
Variants == {"clientPlace", "working"}

NumClients == 2

NumIds == 2

Clients == 1 .. NumClients

IdNumbers == 1 .. NumIds

\* `maxAdvanceDate.setDate(today.getDate() + 30)` for admin bookings
adminAdvanceDays == 30

\* visit days counted from today: yesterday, today, too far ahead
VisitDays == {-1, 0, adminAdvanceDays + 1}

\* numberOfVisitors, and the length of visitorDetails
VisitorCounts == {0, 1, 6}

AppointmentRequests ==
    [idNumber : IdNumbers, visitDay : VisitDays,
     numberOfVisitors : VisitorCounts, visitorDetails : VisitorCounts]

NoRequest == [idNumber |-> 0, visitDay |-> 0, numberOfVisitors |-> 0, visitorDetails |-> 0]

\* A faulty route that hands every body to the handler
validationSkipped(r) == TRUE

\* appointmentValidation: numberOfVisitors isInt({min: 1, max: 5}),
\* visitorDetails isArray({min: 1, max: 5})
appointmentValidation(r) ==
    /\ r.numberOfVisitors >= 1 /\ r.numberOfVisitors <= 5
    /\ r.visitorDetails >= 1 /\ r.visitorDetails <= 5

\* Appointment.findOne({idNumber, visitDate: {$gte: startOfDay, $lte:
\* endOfDay}, status: {$in: ['pending', 'confirmed']}})
existingAppointment(collection, r) ==
    \E a \in collection :
        /\ a.idNumber = r.idNumber
        /\ a.visitDay = r.visitDay
        /\ a.status \in {"pending", "confirmed"}

\* The checks between the lookup of an existing appointment and the call of
\* the booking strategies: advance days, past date, visitor limits, count
\* against detail list
passesDateAndVisitorChecks(r) ==
    /\ ~(r.visitDay > adminAdvanceDays)
    /\ ~(r.visitDay < 0)
    /\ ~(r.numberOfVisitors > 5)
    /\ ~(r.visitorDetails > 5)
    /\ ~(r.numberOfVisitors # r.visitorDetails)

\* ctl[c]: pc, the request, what the penalty and the existing-appointment
\* lookups answered, whether the booking strategies were called, what they and
\* the verification returned, where the booking reference comes from, whether
\* appointment.save() rejected, and the HTTP status answered (0 = none yet)
NoCall ==
    [pc |-> "idle", req |-> NoRequest, penalty |-> "none", existing |-> "none",
     called |-> FALSE, strategy |-> "none", verification |-> "none",
     provenance |-> "none", fatal |-> FALSE, status |-> 0]

CtlFrame == UNCHANGED <<timingVars, manualVars, orchVars, browserVars, verifyVars, variant, appts, idCheck, api, form, nav, rmi>>

\* res.status(code).json(...)
Respond(c, code, call) ==
    ctl' = [ctl EXCEPT ![c] = [call EXCEPT !.pc = "done", !.status = code]]

\* The request arrives: validationResult(req), then NoShowPenalty.findOne is
\* awaited
Receive(c) ==
    /\ ctl[c].pc = "idle"
    /\ \E r \in AppointmentRequests :
         LET call == [ctl[c] EXCEPT !.req = r]
         IN  IF ~appointmentValidation(r)
             THEN Respond(c, 400, call)
             ELSE ctl' = [ctl EXCEPT ![c] = [call EXCEPT !.pc = "penalty"]]
    /\ CtlFrame

\* `if (activePenalty) return res.status(400)`
PenaltyCheck(c) ==
    /\ ctl[c].pc = "penalty"
    /\ \E activePenalty \in BOOLEAN :
         IF activePenalty
         THEN Respond(c, 400, [ctl[c] EXCEPT !.penalty = "active"])
         ELSE ctl' = [ctl EXCEPT ![c] = [@ EXCEPT !.penalty = "clear",
                         !.pc = IF variant = "working" THEN "duplicate" ELSE "config"]]
    /\ CtlFrame

\* The fast duplicate check of the working handler:
\* Appointment.findOne({idNumber, visitDate, status}).lean() on the date as
\* sent; requests carry the day alone
FastDuplicateCheck(c) ==
    /\ ctl[c].pc = "duplicate"
    /\ IF existingAppointment(appts, ctl[c].req)
       THEN Respond(c, 400, [ctl[c] EXCEPT !.existing = "taken"])
       ELSE ctl' = [ctl EXCEPT ![c].pc = "config"]
    /\ CtlFrame

\* MuseumConfig.findOne; the route lets only admin users in, so the 403 of the
\* handler is never answered
ConfigCheck(c) ==
    /\ ctl[c].pc = "config"
    /\ \E museumConfig \in BOOLEAN :
         IF ~museumConfig
         THEN Respond(c, 400, ctl[c])
         ELSE ctl' = [ctl EXCEPT ![c].pc = "existing"]
    /\ CtlFrame

\* Appointment.findOne has answered: the duplicate is rejected, then the date
\* and visitor checks run, and the booking strategies are called
ExistingCheck(c) ==
    /\ ctl[c].pc = "existing"
    /\ IF existingAppointment(appts, ctl[c].req)
       THEN Respond(c, 400, [ctl[c] EXCEPT !.existing = "taken"])
       ELSE IF ~passesDateAndVisitorChecks(ctl[c].req)
       THEN Respond(c, 400, [ctl[c] EXCEPT !.existing = "free"])
       ELSE ctl' = [ctl EXCEPT ![c] = [@ EXCEPT !.existing = "free", !.called = TRUE,
                                                 !.pc = "automation"]]
    /\ CtlFrame

\* What createGuaranteedClientPlaceBooking hands back: a strategy succeeded
\* and the booking was found, or was not found; its own manual tier wrote the
\* log; its catch made a failure of an exception.  It never throws, so the
\* fallbacks of the handler to implementClientPlaceIntegration and
\* attemptBooking are not reached.
GuaranteedOutcomes == {"verified", "not_found", "manualFallback", "failure"}

\* createGuaranteedClientPlaceBooking has returned.  After a failure
\* manualMuseumBooking.attemptBooking is called, and a simulated reference
\* stands in when that fails too.
GuaranteedReturns(c) ==
    /\ variant = "clientPlace"
    /\ ctl[c].pc = "automation"
    /\ \E o \in GuaranteedOutcomes :
         LET m == manualAttemptBooking(logFile, now, c)
         IN  /\ logFile' = IF o \in {"manualFallback", "failure"} THEN m.file ELSE logFile
             /\ ctl' = [ctl EXCEPT ![c] = [@ EXCEPT
                    !.pc = "save",
                    !.strategy = IF o = "failure" THEN "failure" ELSE "success",
                    !.verification = IF o = "verified" THEN "found"
                                     ELSE IF o = "not_found" THEN "not_found" ELSE "none",
                    !.provenance = IF o \in {"verified", "not_found"} THEN "automated"
                                   ELSE IF o = "manualFallback" THEN "verified_manual"
                                   ELSE IF m.result.success THEN "manual_pending"
                                   ELSE "simulated"]]
    /\ UNCHANGED <<now, manualOut, variant, appts>>
    /\ UNCHANGED <<timingVars, orchVars, browserVars, verifyVars, idCheck, api, form, nav, rmi>>

\* `res.status(500).json({message: 'Museum booking failed ...'})`
MuseumBookingFailed(c, call) == Respond(c, 500, call)

\* workingMuseumIntegration.createRealMuseumBooking has returned or thrown
WorkingReturns(c) ==
    /\ variant = "working"
    /\ ctl[c].pc = "automation"
    /\ \E o \in {"success", "failure", "threw"} :
         IF o = "success"
         THEN ctl' = [ctl EXCEPT ![c] = [@ EXCEPT !.strategy = "success", !.pc = "verify"]]
         ELSE MuseumBookingFailed(c, [ctl[c] EXCEPT !.strategy = o])
    /\ CtlFrame

\* workingMuseumIntegration.verifyBookingInMuseumSystem has answered
WorkingVerify(c) ==
    /\ ctl[c].pc = "verify"
    /\ \E isVerified \in BOOLEAN :
         IF isVerified
         THEN ctl' = [ctl EXCEPT ![c] = [@ EXCEPT !.verification = "found", !.pc = "complete"]]
         ELSE MuseumBookingFailed(c, [ctl[c] EXCEPT !.verification = "not_found"])
    /\ CtlFrame

\* realVerificationSystem.verifyCompleteBooking, then createMuseumEntryRecord
CompleteVerification(c) ==
    /\ ctl[c].pc = "complete"
    /\ \E o \in {"verified", "not_verified", "threw"} :
         IF o = "verified"
         THEN ctl' = [ctl EXCEPT ![c] = [@ EXCEPT !.provenance = "automated", !.pc = "save"]]
         ELSE MuseumBookingFailed(c, [ctl[c] EXCEPT !.verification = "incomplete"])
    /\ CtlFrame

\* new Appointment({... status: 'confirmed'}); await appointment.save().  A
\* rejected save ends in the catch of the handler: 500 'Internal server error'
SaveAppointment(c) ==
    /\ ctl[c].pc = "save"
    /\ \E saved \in BOOLEAN :
         IF saved
         THEN /\ appts' = appts \cup {[idNumber |-> ctl[c].req.idNumber,
                                       visitDay |-> ctl[c].req.visitDay,
                                       status |-> "confirmed", by |-> c]}
              /\ Respond(c, 201, ctl[c])
         ELSE /\ Respond(c, 500, [ctl[c] EXCEPT !.fatal = TRUE])
              /\ UNCHANGED appts
    /\ UNCHANGED variant
    /\ UNCHANGED <<timingVars, manualVars, orchVars, browserVars, verifyVars, idCheck, api, form, nav, rmi>>

-----------------------------------------------------------------------------
(* RealVerificationSystem.validateChineseID and                            *)
(* IDCardVerificationService.validateIDNumber                              *)

DigitChars == <<"0", "1", "2", "3", "4", "5", "6", "7", "8", "9">>

IsDigit(ch) == \E d \in 1 .. Len(DigitChars) : DigitChars[d] = ch

\* parseInt of a one-character string that is a digit
parseInt(ch) == (CHOOSE d \in 1 .. Len(DigitChars) : DigitChars[d] = ch) - 1

\* String.prototype.toUpperCase on one character
toUpperCase(ch) == IF ch = "x" THEN "X" ELSE IF ch = "a" THEN "A" ELSE ch

weights == <<7, 9, 10, 5, 8, 4, 2, 1, 6, 3, 7, 9, 10, 5, 8, 4, 2>>

checkCodes == <<"1", "0", "X", "9", "8", "7", "6", "5", "4", "3", "2">>

\* /^\d{17}[\dXx]$/.test(idNumber)
formatTest(idNumber) ==
    /\ Len(idNumber) = 18
    /\ \A i \in 1 .. 17 : IsDigit(idNumber[i])
    /\ IsDigit(idNumber[18]) \/ idNumber[18] \in {"X", "x"}

\* for (let i = 0; i < 17; i++) sum += parseInt(idNumber[i]) * weights[i]
RECURSIVE weightedSum(_, _)
weightedSum(idNumber, i) ==
    IF i = 0 THEN 0 ELSE weightedSum(idNumber, i - 1) + parseInt(idNumber[i]) * weights[i]

\* A faulty check that takes the sum modulo 10
checkDigitModTen(idNumber) ==
    checkCodes[(weightedSum(idNumber, 17) % 10) + 1] = toUpperCase(idNumber[18])

\* validateCheckDigit: checkCodes[sum % 11] === idNumber[17].toUpperCase()
validateCheckDigit(idNumber) ==
    checkCodes[(weightedSum(idNumber, 17) % 11) + 1] = toUpperCase(idNumber[18])

\* A faulty validator that computes the check digit of whatever it is given
checksumAlways(idNumber) == TRUE

\* The two early returns of validateChineseID: the check digit is computed
\* only for 18 characters that pass the format test
checksumReached(idNumber) ==
    IF Len(idNumber) # 18 THEN FALSE
    ELSE IF ~formatTest(idNumber) THEN FALSE
    ELSE TRUE

\* RealVerificationSystem.validateChineseID
validateChineseID(idNumber) ==
    IF Len(idNumber) # 18 THEN FALSE
    ELSE IF ~formatTest(idNumber) THEN FALSE
    ELSE validateCheckDigit(idNumber)

\* IDCardVerificationService.validateIDNumber
validateIDNumber(idNumber) ==
    IF Len(idNumber) # 18 THEN FALSE
    ELSE IF ~formatTest(idNumber) THEN FALSE
    ELSE IF ~validateCheckDigit(idNumber) THEN FALSE
    ELSE TRUE

\* The ID numbers tried: the first 17 characters of 11010519491231002X with
\* the characters at three places varied, followed by no, one or two
\* characters
IdChars == {"0", "1", "2", "3", "4", "5", "6", "7", "8", "9", "X", "x", "a"}

BasePrefix == <<"1", "1", "0", "1", "0", "5", "1", "9", "4", "9", "1", "2", "3", "1", "0", "0", "2">>

IdPrefixes ==
    {[i \in 1 .. 17 |-> IF i = 1 THEN a ELSE IF i = 8 THEN b ELSE IF i = 17 THEN c ELSE BasePrefix[i]] :
        a \in {"1", "6", "a"}, b \in {DigitChars[d] : d \in 1 .. Len(DigitChars)}, c \in {"2", "5", "X"}}

IdTails == {<<>>} \cup {<<ch>> : ch \in IdChars} \cup {<<ch, "0">> : ch \in IdChars}

IdNumberInputs == {p \o t : p \in IdPrefixes, t \in IdTails}

Answer(b) == IF b THEN "true" ELSE "false"

NoIdCheck == [id |-> <<>>, chinese |-> "none", number |-> "none", summed |-> "none"]

IdFrame == UNCHANGED <<timingVars, manualVars, orchVars, browserVars, verifyVars, ctlVars, api, form, nav, rmi>>

ValidateChineseID ==
    /\ idCheck.chinese = "none"
    /\ idCheck' = [idCheck EXCEPT !.chinese = Answer(validateChineseID(idCheck.id)),
                                   !.summed = Answer(checksumReached(idCheck.id))]
    /\ IdFrame

ValidateIDNumber ==
    /\ idCheck.number = "none"
    /\ idCheck' = [idCheck EXCEPT !.number = Answer(validateIDNumber(idCheck.id))]
    /\ IdFrame

-----------------------------------------------------------------------------
(* The API strategies, endpoint by endpoint                                *)

ApiStrategies ==
    {"tryApiBooking", "tryEnhancedMuseumAPI", "tryRealMuseumAPI",
     "tryDirectClientPlaceBooking", "tryDirectMuseumAPI"}

apiEndpoints == 9

enhancedAPIs == 8

museumAPIEndpoints == 8

directEndpoints == 5

directMuseumAPIEndpoints == 5

\* the requests a strategy sends when none succeeds;
\* tryDirectClientPlaceBooking posts two approaches to every endpoint
Contacts(fn) ==
    CASE fn = "tryApiBooking" -> apiEndpoints
      [] fn = "tryEnhancedMuseumAPI" -> enhancedAPIs
      [] fn = "tryRealMuseumAPI" -> museumAPIEndpoints
      [] fn = "tryDirectClientPlaceBooking" -> directEndpoints * 2
      [] OTHER -> directMuseumAPIEndpoints

\* What one request meets: fetch rejects (network error, timeout); the status
\* is not 2xx; the status is 2xx but neither 200 nor 201; or the answer is 200
\* with a body that is text holding no success word, text holding one, JSON
\* null, a JSON object without success word or identifier, a JSON object with
\* a success word, a JSON object with a bookingId and a confirmationCode.
ApiOutcomes ==
    {"network_error", "timeout", "non_2xx", "status_202", "text", "text_marker", "null_body",
     "json_nomarker", "json_marker", "json_id"}

TransportFailures == {"network_error", "timeout", "non_2xx"}

\* the bodies in which `responseText.includes('success') || ... ('booking')` holds
MarkerBodies == {"text_marker", "json_marker", "json_id"}

Generated(prefix, t) == [prefix |-> prefix, ts |-> t]

Proceed == [kind |-> "next", result |-> NoResult]

Return(r) == [kind |-> "return", result |-> r]

Throw == [kind |-> "throw", result |-> NoResult]

\* A faulty loop body that reads the parsed body outside the try of the endpoint
jsonUnguarded(name, prefix, takesId, outcome, t) ==
    IF outcome \in {"text", "text_marker", "null_body"} THEN Throw
    ELSE IF outcome \in TransportFailures THEN Proceed
    ELSE Return(BookingResult(TRUE, Generated(prefix, t), name))

\* One pass of a fetch loop: `if (response.ok) { data = await response.json();
\* return {success: true, bookingReference: data.<id> || `<PREFIX>-${Date.now()}`} }`
\* inside try/catch/continue.  response.json() rejects on text, reading a
\* field of null throws; both end in the catch.
jsonEndpoint(name, prefix, takesId, outcome, t) ==
    IF outcome \in TransportFailures \cup {"text", "text_marker", "null_body"} THEN Proceed
    ELSE Return(BookingResult(TRUE,
                              IF outcome = "json_id" /\ takesId THEN External ELSE Generated(prefix, t),
                              name))

\* tryApiBooking reads result.bookingReference, which a body with a bookingId
\* does not have
apiBookingEndpoint(outcome, t) == jsonEndpoint("tryApiBooking", "API", FALSE, outcome, t)

enhancedEndpoint(outcome, t) == jsonEndpoint("tryEnhancedMuseumAPI", "ENHANCED", TRUE, outcome, t)

realApiEndpoint(outcome, t) == jsonEndpoint("tryRealMuseumAPI", "MUSEUM_API_", TRUE, outcome, t)

\* tryDirectClientPlaceBooking: response.ok and the text includes a success word
directEndpoint(outcome, t) ==
    IF outcome \in MarkerBodies
    THEN Return(BookingResult(TRUE, Generated("DIRECT", t), "tryDirectClientPlaceBooking"))
    ELSE Proceed

\* tryDirectMuseumAPI: axios.post rejects on a transport failure and on a
\* status that is not 2xx; status 200 or 201 is a success whatever the body,
\* a text body has no bookingId, a null body throws into the catch
directMuseumEndpoint(outcome, t) ==
    IF outcome \in TransportFailures \cup {"status_202", "null_body"} THEN Proceed
    ELSE Return(BookingResult(TRUE,
                              IF outcome = "json_id" THEN External ELSE Generated("SXHM", t),
                              "tryDirectMuseumAPI"))

ApiAnswer(fn, outcome, t) ==
    CASE fn = "tryApiBooking" -> apiBookingEndpoint(outcome, t)
      [] fn = "tryEnhancedMuseumAPI" -> enhancedEndpoint(outcome, t)
      [] fn = "tryRealMuseumAPI" -> realApiEndpoint(outcome, t)
      [] fn = "tryDirectClientPlaceBooking" -> directEndpoint(outcome, t)
      [] OTHER -> directMuseumEndpoint(outcome, t)

NoApi ==
    [fn |-> "none", i |-> 0, seen |-> {}, last |-> "none", returned |-> NoResult,
     threw |-> FALSE, done |-> FALSE]

ApiFrame == UNCHANGED <<timingVars, manualVars, orchVars, browserVars, verifyVars, ctlVars, idCheck, form, nav, rmi>>

ApiStart(fn) ==
    /\ api.fn = "none" \/ api.done
    /\ api' = [NoApi EXCEPT !.fn = fn]
    /\ ApiFrame

\* the next request of the loop is sent and answered
ApiEndpoint ==
    /\ api.fn # "none"
    /\ ~api.done
    /\ api.i < Contacts(api.fn)
    /\ \E outcome \in ApiOutcomes :
         LET a == ApiAnswer(api.fn, outcome, now)
         IN  api' = [api EXCEPT
                       !.i = @ + 1,
                       !.seen = @ \cup {outcome},
                       !.last = outcome,
                       !.returned = a.result,
                       !.threw = a.kind = "throw",
                       !.done = a.kind # "next"]
    /\ ApiFrame

\* `return { success: false, error: 'All ... failed' }` after the loop
ApiExhausted ==
    /\ api.fn # "none"
    /\ ~api.done
    /\ api.i = Contacts(api.fn)
    /\ api' = [api EXCEPT !.returned = Failure(api.fn), !.done = TRUE]
    /\ ApiFrame

-----------------------------------------------------------------------------
(* fillBookingForm and the form filling of attemptStealthBooking           *)

FormFillers == {"fillBookingForm", "attemptStealthBooking"}

FormFields == {"visitorName", "idNumber", "idType", "museum", "visitDate", "timeSlot"}

\* the candidate selectors of fillBookingForm, field by field
nameSelectors == <<"#visitor-name", "#name", "[name=name]", "[placeholder*=name-zh]", "[placeholder*=name]">>

idSelectors == <<"#id-number", "#idNumber", "[name=idNumber]", "[placeholder*=id-zh]", "[placeholder*=ID]">>

idTypeSelectors == <<"#id-type", "#idType", "[name=idType]">>

museumSelectors == <<"#museum", "#museumSelect", "[name=museum]">>

dateSelectors == <<"#visit-date", "#visitDate", "[name=visitDate]", "[type=date]">>

timeSelectors == <<"#time-slot", "#timeSlot", "[name=timeSlot]">>

\* the candidate selectors attemptStealthBooking builds from the key of a field
fieldSelectors == <<"#key", "[name=key]", "[name=snake_key]", "input[placeholder*=key]", "[data-field=key]">>

Candidates(fn, field) ==
    IF fn = "attemptStealthBooking" THEN fieldSelectors
    ELSE CASE field = "visitorName" -> nameSelectors
           [] field = "idNumber" -> idSelectors
           [] field = "idType" -> idTypeSelectors
           [] field = "museum" -> museumSelectors
           [] field = "visitDate" -> dateSelectors
           [] OTHER -> timeSelectors

\* whether the loop over the candidates ends after this one: the loops of
\* fillBookingForm have no break, the loop of attemptStealthBooking breaks
\* after the first page.type that did not throw
breaksAfter(fn, matched) == fn = "attemptStealthBooking" /\ matched

NoForm == [fn |-> "none", field |-> "none", present |-> {}, j |-> 0, typed |-> {}, filled |-> FALSE]

FormFrame == UNCHANGED <<timingVars, manualVars, orchVars, browserVars, verifyVars, ctlVars, idCheck, api, nav, rmi>>

\* the filling of one field starts on a page where the candidates in
\* `present` match an element
FormStart(fn, field) ==
    /\ form.fn = "none" \/ form.filled \/ form.j = Len(Candidates(form.fn, form.field))
    /\ \E present \in SUBSET (1 .. Len(Candidates(fn, field))) :
         form' = [NoForm EXCEPT !.fn = fn, !.field = field, !.present = present]
    /\ FormFrame

\* typeIfPresent / selectIfPresent / page.type on the next candidate: the
\* value goes into the element when the selector matches one
FormCandidate ==
    /\ form.fn # "none"
    /\ ~form.filled
    /\ form.j < Len(Candidates(form.fn, form.field))
    /\ LET j == form.j + 1
           matched == j \in form.present
       IN  form' = [form EXCEPT !.j = j,
                                !.typed = IF matched THEN @ \cup {j} ELSE @,
                                !.filled = breaksAfter(form.fn, matched)]
    /\ FormFrame

-----------------------------------------------------------------------------
(* The booking site URL of attemptBooking and checkAvailability            *)

Navigators == {"attemptBooking", "checkAvailability"}

\* process.env.MUSEUM_BOOKING_URL: absent, empty, blank, or a URL without or
\* with a query string
Unset == "undefined"

OverrideUrl == "http://staging.test/booking"

OverrideUrlWithQuery == "http://staging.test/booking?lang=zh"

EnvValues == {Unset, "", " ", OverrideUrl, OverrideUrlWithQuery}

possibleUrls ==
    << "https://ticket.sxhm.com/quickticket/index.html#/",
       "https://ticket.sxhm.com/quickticket/",
       "https://ticket.sxhm.com/",
       "https://www.sxhm.com/",
       "https://sxhm.com/",
       "http://ticket.sxhm.com/quickticket/index.html#/",
       "http://ticket.sxhm.com/quickticket/",
       "http://ticket.sxhm.com/",
       "http://www.sxhm.com/",
       "http://sxhm.com/" >>

mobileUrl == "https://ticket.sxhm.com/quickticket/index.html#/"

testMuseumSite == "http://localhost:8080/test-museum-site.html"

\* JavaScript truthiness of the environment value
Truthy(env) == env # Unset /\ env # ""

\* String.prototype.trim
trim(env) == IF env = " " THEN "" ELSE env

\* baseUrl.includes('?')
includesQuery(url) == url = OverrideUrlWithQuery

\* the base URL checkAvailability navigates to
baseUrl(env) == IF Truthy(env) /\ trim(env) # "" THEN env ELSE testMuseumSite

\* the URL checkAvailability hands to page.goto
checkUrl(env) ==
    IF includesQuery(baseUrl(env)) THEN baseUrl(env)
    ELSE IF baseUrl(env) = testMuseumSite THEN "http://localhost:8080/test-museum-site.html?check=true"
    ELSE "http://staging.test/booking?check=true"

\* the URL attemptBooking logs as the one it navigates to
museumUrl(env) == IF Truthy(env) THEN env ELSE possibleUrls[1]

NoNav == [fn |-> "none", env |-> Unset, logged |-> "none", i |-> 0, visited |-> {}, loaded |-> "none", done |-> FALSE]

NavFrame == UNCHANGED <<timingVars, manualVars, orchVars, browserVars, verifyVars, ctlVars, idCheck, api, form, rmi>>

NavStart(fn, env) ==
    /\ nav.fn = "none" \/ nav.done
    /\ nav' = [NoNav EXCEPT !.fn = fn, !.env = env,
                            !.logged = IF fn = "attemptBooking" THEN museumUrl(env) ELSE checkUrl(env)]
    /\ NavFrame

\* one pass of `for (const url of possibleUrls)`: page.goto(url) loads the
\* page and the loop breaks, or throws and the loop continues
NavPossibleUrl ==
    /\ nav.fn = "attemptBooking"
    /\ ~nav.done
    /\ nav.i < Len(possibleUrls)
    /\ \E ok \in BOOLEAN :
         nav' = [nav EXCEPT !.i = @ + 1,
                            !.visited = @ \cup {possibleUrls[nav.i + 1]},
                            !.loaded = IF ok THEN possibleUrls[nav.i + 1] ELSE @,
                            !.done = ok]
    /\ NavFrame

\* every URL of the list failed: the mobile approach
NavMobile ==
    /\ nav.fn = "attemptBooking"
    /\ ~nav.done
    /\ nav.i = Len(possibleUrls)
    /\ \E ok \in BOOLEAN :
         nav' = [nav EXCEPT !.visited = @ \cup {mobileUrl},
                            !.loaded = IF ok THEN mobileUrl ELSE @,
                            !.done = TRUE]
    /\ NavFrame

\* page.goto(museumUrl) of checkAvailability
NavCheck ==
    /\ nav.fn = "checkAvailability"
    /\ ~nav.done
    /\ \E ok \in BOOLEAN :
         nav' = [nav EXCEPT !.visited = @ \cup {checkUrl(nav.env)},
                            !.loaded = IF ok THEN checkUrl(nav.env) ELSE @,
                            !.done = TRUE]
    /\ NavFrame

-----------------------------------------------------------------------------
(* RealMuseumIntegrationService.createRealMuseumBooking                    *)

\* the approaches in the order of the code
approaches == <<"tryDirectMuseumAPI", "tryMuseumWebForm", "tryMuseumMobileAPI", "tryMuseumWeChatAPI">>

\* What an approach can return.  Each catches its own errors; the web form
\* approach returns its simulated success whatever the input.
ApproachOutcomes(name) ==
    IF name = "tryMuseumWebForm" THEN {TRUE} ELSE BOOLEAN

\* the answers of the timing request: canBook true or not, or no answer
TimingAnswers == {"canBook", "closed", "error"}

\* checkMuseumTiming: the answer of the timing request, and the time-based
\* check when the request has failed
timingStatus(answer, currentTime) ==
    IF answer = "error" THEN checkMuseumTiming(currentTime).canBook
    ELSE answer = "canBook"

\* A faulty gate that lets every request through
gateAlwaysOpen(canBook) == FALSE

\* if (!timingStatus.canBook) return { success: false, ... }
gateClosed(canBook) == ~canBook

NoRmi == [pc |-> "idle", canBook |-> FALSE, i |-> 0, calls |-> <<>>,
          result |-> [success |-> FALSE, clientPlaceVerified |-> FALSE]]

RmiFrame == UNCHANGED <<timingVars, manualVars, orchVars, browserVars, verifyVars, ctlVars, idCheck, api, form, nav>>

\* createRealMuseumBooking is called: await this.checkMuseumTiming()
RmiTiming ==
    /\ rmi.pc = "idle"
    /\ \E answer \in TimingAnswers :
         LET canBook == timingStatus(answer, minute)
         IN  rmi' = IF gateClosed(canBook)
                    THEN [rmi EXCEPT !.pc = "done", !.canBook = canBook]
                    ELSE [rmi EXCEPT !.pc = "approach", !.canBook = canBook, !.i = 1]
    /\ RmiFrame

\* one pass of `for (const approach of approaches)`: the approach is awaited;
\* a success goes on to the verification, a failure to the next approach, and
\* after the last one the failure result is returned
RmiApproach ==
    /\ rmi.pc = "approach"
    /\ \E success \in ApproachOutcomes(approaches[rmi.i]) :
         rmi' = [rmi EXCEPT
                   !.calls = Append(@, [name |-> approaches[rmi.i], success |-> success]),
                   !.pc = IF success THEN "verify"
                          ELSE IF rmi.i < Len(approaches) THEN "approach"
                          ELSE "done",
                   !.i = IF success \/ rmi.i = Len(approaches) THEN @ ELSE @ + 1]
    /\ RmiFrame

\* await this.verifyInClientPlace(...), which returns a boolean, and the
\* return of the result
RmiVerify ==
    /\ rmi.pc = "verify"
    /\ \E verified \in BOOLEAN :
         rmi' = [rmi EXCEPT
                   !.calls = Append(@, [name |-> "verifyInClientPlace", success |-> verified]),
                   !.result = [success |-> TRUE, clientPlaceVerified |-> verified],
                   !.pc = "done"]
    /\ RmiFrame

-----------------------------------------------------------------------------
(* Specifications                                                          *)

InitTiming == minute = 0 /\ timing = NoTiming

InitManual ==
    /\ logFile = [exists |-> FALSE, parses |-> TRUE, writable |-> TRUE, records |-> <<>>]
    /\ now = 0
    /\ manualOut = NoManual

InitOrch ==
    /\ pc = [p \in Requests |-> "idle"]
    /\ kind = [p \in Requests |-> "integration"]
    /\ req = [p \in Requests |-> [dateValid |-> TRUE]]
    /\ pos = [p \in Requests |-> 1]
    /\ invoked = [p \in Requests |-> <<>>]
    /\ rets = [p \in Requests |-> <<>>]
    /\ sres = [p \in Requests |-> NoResult]
    /\ result = [p \in Requests |-> NoResult]
    /\ nres = [p \in Requests |-> 0]

InitBrowser ==
    /\ browser = 0
    /\ page = 0
    /\ bstate = [b \in Browsers |-> "none"]
    /\ owner = [b \in Browsers |-> 0]
    /\ closeFailed = [b \in Browsers |-> FALSE]
    /\ foreign = {}

InitVerify ==
    /\ cpb = [id \in BookingIds |-> NoDoc]
    /\ hist = <<>>
    /\ ops = [w \in Workers |-> Idle]
    /\ lookup = NoLookup

InitCtl ==
    /\ variant = "clientPlace"
    /\ ctl = [c \in Clients |-> NoCall]
    /\ appts = {}

\* One orchestration run on the exported MuseumAutomation instance, with the
\* log file absent, well formed or not parseable
Init ==
    /\ InitTiming
    /\ logFile \in {f \in LogFiles : f.writable}
    /\ now = 0
    /\ manualOut = NoManual
    /\ InitOrch
    /\ InitBrowser
    /\ InitVerify
    /\ InitCtl
    /\ idCheck = NoIdCheck
    /\ api = NoApi
    /\ form = NoForm
    /\ nav = NoNav
    /\ rmi = NoRmi

Next ==
    \E p \in Requests :
        \/ Start(p)
        \/ ApiTier(p)
        \/ SimulatedTier(p)
        \/ ManualTier(p)
        \/ VerifyStep(p)
        \/ StLaunch(p)
        \/ StNewPage(p)
        \/ StNavigate(p)
        \/ StBook(p)
        \/ AbApi(p)
        \/ AbLaunch(p)
        \/ AbNewPage(p)
        \/ AbNavigate(p)
        \/ AbMobileClose(p)
        \/ AbMobileNull(p)
        \/ AbMobileLaunch(p)
        \/ AbMobileNewPage(p)
        \/ AbMobileNavigate(p)
        \/ AbForm(p)
        \/ AbSubmit(p)
        \/ CaLaunch(p)
        \/ CaNewPage(p)
        \/ CaPage(p)
        \/ Finally(p)

Spec == Init /\ [][Next]_vars

\* Every network call and browser step returns or times out, so a run that
\* can take a step eventually takes one
FairSpec == Spec /\ WF_vars(Next)

(* One orchestration run by itself, at the minutes around the release *)

SampledMinutes == {0, releaseTime - 1, releaseTime, releaseTime + 5, releaseTime + 6, MinutesPerDay - 1}

NextRun ==
    \/ Start(Run)
    \/ ApiTier(Run)
    \/ SimulatedTier(Run)
    \/ ManualTier(Run)
    \/ VerifyStep(Run)
    \/ StLaunch(Run)
    \/ StNewPage(Run)
    \/ StNavigate(Run)
    \/ StBook(Run)
    \/ AbApi(Run)
    \/ AbLaunch(Run)
    \/ AbNewPage(Run)
    \/ AbNavigate(Run)
    \/ AbMobileClose(Run)
    \/ AbMobileNull(Run)
    \/ AbMobileLaunch(Run)
    \/ AbMobileNewPage(Run)
    \/ AbMobileNavigate(Run)
    \/ AbForm(Run)
    \/ AbSubmit(Run)
    \/ Finally(Run)

InitRun ==
    /\ minute \in SampledMinutes
    /\ timing = NoTiming
    /\ InitManual
    /\ InitOrch
    /\ InitBrowser
    /\ InitVerify
    /\ InitCtl
    /\ idCheck = NoIdCheck
    /\ api = NoApi
    /\ form = NoForm
    /\ nav = NoNav
    /\ rmi = NoRmi

SpecRun == InitRun /\ [][NextRun]_vars


(* The timing gate queried at any minute of the day *)

\* checkMuseumTimingStatus() at the minute the clock shows
CheckTiming ==
    /\ timing' = checkMuseumTimingStatus(minute)
    /\ UNCHANGED minute
    /\ UNCHANGED <<manualVars, orchVars, browserVars, verifyVars, ctlVars, idCheck, api, form, nav, rmi>>

NextTiming == CheckTiming

InitClock ==
    /\ minute \in 0 .. MinutesPerDay - 1
    /\ timing = NoTiming
    /\ InitManual
    /\ InitOrch
    /\ InitBrowser
    /\ InitVerify
    /\ InitCtl
    /\ idCheck = NoIdCheck
    /\ api = NoApi
    /\ form = NoForm
    /\ nav = NoNav
    /\ rmi = NoRmi

SpecTiming == InitClock /\ [][NextTiming]_vars

(* The timing gates of the four services side by side *)

CheckTimingWorking ==
    /\ \E who \in {"WorkingMuseumIntegration", "PracticalMuseumIntegration"} :
          timing' = workingCheckMuseumTimingStatus(minute, who)
    /\ UNCHANGED minute
    /\ UNCHANGED <<manualVars, orchVars, browserVars, verifyVars, ctlVars, idCheck, api, form, nav, rmi>>

\* checkMuseumTiming when the request for the timing status has failed
CheckTimingFallback ==
    /\ timing' = checkMuseumTiming(minute)
    /\ UNCHANGED minute
    /\ UNCHANGED <<manualVars, orchVars, browserVars, verifyVars, ctlVars, idCheck, api, form, nav, rmi>>

NextGates ==
    \/ CheckTiming
    \/ CheckTimingWorking
    \/ CheckTimingFallback

InitGates ==
    /\ minute \in 0 .. MinutesPerDay - 1
    /\ timing = NoTiming
    /\ InitManual
    /\ InitOrch
    /\ InitBrowser
    /\ InitVerify
    /\ InitCtl
    /\ idCheck = NoIdCheck
    /\ api = NoApi
    /\ form = NoForm
    /\ nav = NoNav
    /\ rmi = NoRmi

SpecGates == InitGates /\ [][NextGates]_vars


InitQuiet == InitTiming /\ InitManual /\ InitOrch /\ InitBrowser /\ InitVerify /\ InitCtl /\ idCheck = NoIdCheck /\ api = NoApi /\ form = NoForm /\ nav = NoNav /\ rmi = NoRmi

(* The manual-booking log used by itself *)

ManualAttempt(p) ==
    /\ Len(logFile.records) < MaxLog
    /\ LET m == manualAttemptBooking(logFile, now, p)
       IN  /\ logFile' = m.file
           /\ manualOut' = [m.result EXCEPT !.updateThrew = manualOut.updateThrew,
                                             !.updated = manualOut.updated]
    /\ UNCHANGED now
    /\ UNCHANGED <<timingVars, orchVars, browserVars, verifyVars, ctlVars, idCheck, api, form, nav, rmi>>

Tick ==
    /\ now < MaxClock
    /\ now' = now + 1
    /\ UNCHANGED <<logFile, manualOut>>
    /\ UNCHANGED <<timingVars, orchVars, browserVars, verifyVars, ctlVars, idCheck, api, form, nav, rmi>>

\* The operator completes or fails a booking by hand (updateManualBooking)
UpdateStatus ==
    /\ \E t \in 0 .. MaxClock, status \in {"completed", "failed", Pending}, officialReference \in {0, 1, 2} :
         LET bookingId == [prefix |-> "MANUAL", ts |-> t]
             u == updateBookingStatus(logFile, bookingId, status, officialReference)
         IN  /\ logFile' = u.file
             /\ manualOut' = [manualOut EXCEPT
                    !.updateThrew = u.threw,
                    !.updated = IF u.threw THEN NoUpdate
                                ELSE [id |-> bookingId, status |-> status,
                                      hit |-> FindBooking(logFile.records, bookingId)]]
    /\ UNCHANGED now
    /\ UNCHANGED <<timingVars, orchVars, browserVars, verifyVars, ctlVars, idCheck, api, form, nav, rmi>>

NextManual ==
    \/ \E p \in Requests : ManualAttempt(p)
    \/ UpdateStatus
    \/ Tick

InitLog ==
    /\ InitTiming
    /\ logFile \in LogFiles
    /\ now = 0
    /\ manualOut = NoManual
    /\ InitOrch
    /\ InitBrowser
    /\ InitVerify
    /\ InitCtl
    /\ idCheck = NoIdCheck
    /\ api = NoApi
    /\ form = NoForm
    /\ nav = NoNav
    /\ rmi = NoRmi

SpecManual == InitLog /\ [][NextManual]_vars

(* The verification records used by themselves *)

NextVerify == \E id \in BookingIds : Store(id) \/ Verify(id)

SpecVerify == InitQuiet /\ [][NextVerify]_vars

(* The museum lookups *)

NextLookup ==
    \/ \E fn \in Lookups : LookupStart(fn)
    \/ LookupEndpoint
    \/ LookupReturn

InitLookup == InitTiming /\ InitManual /\ InitOrch /\ InitBrowser /\ InitVerify /\ InitCtl /\ idCheck = NoIdCheck /\ api = NoApi /\ form = NoForm /\ nav = NoNav /\ rmi = NoRmi

SpecLookup == InitLookup /\ [][NextLookup]_vars

(* The verification records under overlapping calls *)

\* the bookings the overlapping calls are made for
NumRecords == 1

RecordIds == 1 .. NumRecords

NextStorage ==
    \/ \E id \in RecordIds : Store(id)
    \/ \E w \in Workers, id \in RecordIds : VerifyFind(w, id)
    \/ \E w \in Workers : VerifySave(w)
    \/ \E w \in Workers, id \in RecordIds : BookStore(w, id)
    \/ \E w \in Workers : BookSave(w)
    \/ \E id \in RecordIds : UpdateRecordStatus(id)

InitStorage == InitTiming /\ InitManual /\ InitOrch /\ InitBrowser /\ InitVerify /\ InitCtl /\ idCheck = NoIdCheck /\ api = NoApi /\ form = NoForm /\ nav = NoNav /\ rmi = NoRmi

SpecStorage == InitStorage /\ [][NextStorage]_vars

(* createAppointment requests served concurrently *)

NextAppointment ==
    \E c \in Clients :
        \/ Receive(c)
        \/ PenaltyCheck(c)
        \/ FastDuplicateCheck(c)
        \/ ConfigCheck(c)
        \/ ExistingCheck(c)
        \/ GuaranteedReturns(c)
        \/ WorkingReturns(c)
        \/ WorkingVerify(c)
        \/ CompleteVerification(c)
        \/ SaveAppointment(c)

InitAppointment ==
    /\ InitTiming
    /\ logFile \in LogFiles
    /\ now = 0
    /\ manualOut = NoManual
    /\ InitOrch
    /\ InitBrowser
    /\ InitVerify
    /\ variant \in Variants
    /\ ctl = [c \in Clients |-> NoCall]
    /\ appts = {}
    /\ idCheck = NoIdCheck
    /\ api = NoApi
    /\ form = NoForm
    /\ nav = NoNav
    /\ rmi = NoRmi

SpecAppointment == InitAppointment /\ [][NextAppointment]_vars

(* The ID number validators *)

NextIdCheck == ValidateChineseID \/ ValidateIDNumber

InitIdCheck ==
    /\ InitTiming
    /\ InitManual
    /\ InitOrch
    /\ InitBrowser
    /\ InitVerify
    /\ InitCtl
    /\ idCheck \in {[NoIdCheck EXCEPT !.id = n] : n \in IdNumberInputs}
    /\ api = NoApi
    /\ form = NoForm
    /\ nav = NoNav
    /\ rmi = NoRmi

SpecIdCheck == InitIdCheck /\ [][NextIdCheck]_vars

(* The API strategies used by themselves *)

NextApi ==
    \/ \E fn \in ApiStrategies : ApiStart(fn)
    \/ ApiEndpoint
    \/ ApiExhausted

InitApi == InitTiming /\ InitManual /\ InitOrch /\ InitBrowser /\ InitVerify /\ InitCtl /\ idCheck = NoIdCheck /\ api = NoApi /\ form = NoForm /\ nav = NoNav /\ rmi = NoRmi

SpecApi == InitApi /\ [][NextApi]_vars

(* The form filling used by itself *)

NextForm ==
    \/ \E fn \in FormFillers, field \in FormFields : FormStart(fn, field)
    \/ FormCandidate

InitForm == InitTiming /\ InitManual /\ InitOrch /\ InitBrowser /\ InitVerify /\ InitCtl /\ idCheck = NoIdCheck /\ api = NoApi /\ form = NoForm /\ nav = NoNav /\ rmi = NoRmi

SpecForm == InitForm /\ [][NextForm]_vars

(* The navigation used by itself *)

NextNavigate ==
    \/ \E fn \in Navigators, env \in EnvValues : NavStart(fn, env)
    \/ NavPossibleUrl
    \/ NavMobile
    \/ NavCheck

InitNavigate == InitTiming /\ InitManual /\ InitOrch /\ InitBrowser /\ InitVerify /\ InitCtl /\ idCheck = NoIdCheck /\ api = NoApi /\ form = NoForm /\ nav = NoNav /\ rmi = NoRmi

SpecNavigate == InitNavigate /\ [][NextNavigate]_vars

(* createRealMuseumBooking by itself, at every minute of the day *)

NextRealMuseum ==
    \/ RmiTiming
    \/ RmiApproach
    \/ RmiVerify

InitRealMuseum ==
    /\ minute \in 0 .. MinutesPerDay - 1
    /\ timing = NoTiming
    /\ InitManual
    /\ InitOrch
    /\ InitBrowser
    /\ InitVerify
    /\ InitCtl
    /\ idCheck = NoIdCheck
    /\ api = NoApi
    /\ form = NoForm
    /\ nav = NoNav
    /\ rmi = NoRmi

SpecRealMuseum == InitRealMuseum /\ [][NextRealMuseum]_vars







-----------------------------------------------------------------------------
(* Properties                                                              *)

\* The strategies of request p that have returned a failure without throwing
FailedQuietly(p, j) == j <= Len(rets[p]) /\ ~rets[p][j].success /\ ~rets[p][j].threw

\* The log holds a record written for request p
Recorded(p) ==
    /\ logFile.exists
    /\ logFile.parses
    /\ \E i \in 1 .. Len(logFile.records) : logFile.records[i].by = p

\* C1: the orchestration run invokes its strategies in the fixed order of its
\* orchestrator, a strategy only after every earlier one has returned a
\* failure; it stops at the first success and returns that strategy's result;
\* when the first strategy, the direct API, succeeds, the run has launched no
\* browser and written no manual record.
C1_FixedOrderStopAtFirstSuccess ==
    LET p == Run
        n == Len(invoked[p])
    IN  /\ n <= Len(Tiers(kind[p]))
        /\ \A i \in 1 .. n : invoked[p][i] = Tiers(kind[p])[i]
        /\ \A i \in 1 .. n : \A j \in 1 .. i - 1 : FailedQuietly(p, j)
        /\ \A j \in 1 .. Len(rets[p]) :
             rets[p][j].success =>
                /\ j = n
                /\ pc[p] \in {"verify", "done"}
                /\ pc[p] = "done" =>
                      /\ result[p].success
                      /\ result[p].source = invoked[p][j]
        /\ (Len(rets[p]) >= 1 /\ rets[p][1].success) => (Mine(p) = {} /\ ~Recorded(p))

\* C1 witness: the third strategy succeeded after two failures while another
\* caller was using the instance
C1_Witness_LaterSuccess ==
    /\ pc[Run] = "done"
    /\ Len(rets[Run]) = 3
    /\ rets[Run][3].success
    /\ result[Run].success
    /\ \E q \in Requests \ {Run} : InFlight(q)

\* Every automated strategy of the run of p was tried and returned a failure,
\* and the manual fallback was reached
AllAutomatedFailed(p) ==
    /\ Len(rets[p]) = Len(Tiers(kind[p]))
    /\ \A j \in 1 .. Len(rets[p]) - 1 : FailedQuietly(p, j)

\* C2: when every automated strategy has failed, the run still reports
\* success with a synthesized, non-empty booking reference, and the manual
\* fallback record is in the log.
C2_FallbackSucceedsAndRecords ==
    (pc[Run] = "done" /\ AllAutomatedFailed(Run)) =>
        /\ result[Run].success
        /\ result[Run].bookingReference # NoRef
        /\ Recorded(Run)

\* C3: an orchestration run terminates, and its caller receives exactly one
\* result.
C3_TerminatesWithOneResult ==
    /\ [](nres[Run] <= 1)
    /\ [](pc[Run] = "done" => nres[Run] = 1)
    /\ (pc[Run] = "tier") ~> (pc[Run] = "done")

\* C3 witness: a run that went through at least four strategies has ended with
\* its one result
C3_Witness_LongRunEnded ==
    /\ pc[Run] = "done"
    /\ nres[Run] = 1
    /\ Len(rets[Run]) >= 4

\* C4: no strategy lets an exception reach its caller: what goes wrong inside
\* a strategy, the close of the browser in its finally block included, comes
\* back as a structured failure.
C4_NoExceptionEscapes ==
    \A p \in Requests : \A j \in 1 .. Len(rets[p]) : ~rets[p][j].threw

C7_ManualAttemptNeverFails == manualOut.called => manualOut.success

\* C8: with several requests in flight on the shared instance, each
\* browser-automation invocation works only on the browser and the page it
\* launched itself, never on a session another running invocation launched.
C8_OwnSessionOnly == foreign = {}

\* C9: when a browser-automation invocation has returned, every browser it
\* launched has been closed (a browser whose close() was called and rejected
\* is left aside here).
C9_LaunchedBrowsersClosed ==
    \A p \in Requests :
        pc[p] = "done" => \A b \in Mine(p) : bstate[b] = "closed" \/ closeFailed[b]

\* C10: two verifyClientPlaceBooking calls in sequence on the same stored
\* booking raise its attempt count by exactly two, and a booking that was
\* verified stays verified after a call whose lookup reports not found.
C10_VerifyCountsAndKeepsVerified ==
    /\ (Len(hist) = 2 /\ hist[1].id = hist[2].id /\ hist[1].before.exists) =>
          cpb[hist[2].id].verificationAttempts = hist[1].before.verificationAttempts + 2
    /\ \A k \in 1 .. Len(hist) :
          (k = Len(hist) /\ hist[k].before.clientPlaceStatus = "verified") =>
              cpb[hist[k].id].clientPlaceStatus = "verified"

\* C11: the stored attempt counter of a verification record never decreases,
\* whatever verifyClientPlaceBooking, bookInMuseumSystem and
\* updateClientPlaceBookingStatus calls overlap on it.
C11_AttemptsNeverDecrease ==
    [][\A id \in BookingIds :
          cpb'[id].verificationAttempts >= cpb[id].verificationAttempts]_vars

\* C12: under any interleaving of attemptBooking (append) and
\* updateBookingStatus calls on the manual-booking log, the record of an
\* append that returned success is in the log and stays there, an update that
\* returned normally shows in the record it found, and a log that is a
\* well-formed list stays one.
C12_LogToleratesInterleaving ==
    /\ [](manualOut.success =>
            /\ logFile.exists /\ logFile.parses
            /\ \E i \in 1 .. Len(logFile.records) : logFile.records[i].id = manualOut.bookingReference)
    /\ [](manualOut.updated.hit # 0 =>
            /\ manualOut.updated.hit <= Len(logFile.records)
            /\ logFile.records[manualOut.updated.hit].id = manualOut.updated.id
            /\ logFile.records[manualOut.updated.hit].status = manualOut.updated.status)
    /\ [][/\ (logFile.exists /\ logFile.parses) => (logFile'.exists /\ logFile'.parses)
          /\ Len(logFile'.records) >= Len(logFile.records)
          /\ \A i \in 1 .. Len(logFile.records) :
                /\ logFile'.records[i].id = logFile.records[i].id
                /\ logFile'.records[i].by = logFile.records[i].by]_vars

\* C12 witness: two requests have appended, and the first record was completed
\* by an update made after the second append
C12_Witness_TwoAppendsOneUpdate ==
    /\ Len(logFile.records) = 2
    /\ logFile.records[1].by # logFile.records[2].by
    /\ logFile.records[1].id # logFile.records[2].id
    /\ manualOut.updated.hit = 1
    /\ logFile.records[1].status = "completed"
    /\ logFile.records[2].status = Pending

\* C13: a manual booking record only moves from pending to completed and is
\* completed once: a completed record keeps its status and its official
\* reference, and no record returns to pending or takes another status.
C13_PendingToCompletedOnce ==
    [][\A i \in 1 .. Len(logFile.records) :
          LET before == logFile.records[i]
              after == logFile'.records[i]
          IN  /\ after.status \in {Pending, "completed"}
              /\ before.status # Pending => after.status # Pending
              /\ before.status = "completed" =>
                    /\ after.status = "completed"
                    /\ after.officialReference = before.officialReference]_vars

\* C15: a museum lookup never throws: whatever the endpoints do it returns
\* true or false, and it returns false whenever no endpoint answered with a
\* found/verified marker.
C15_LookupNeverThrows ==
    /\ lookup.returned \in {"none", "true", "false"}
    /\ (lookup.returned # "none" /\ "marker" \notin lookup.seen) => lookup.returned = "false"

\* C15 witness: every endpoint of verifyBookingInClientPlace went wrong in some
\* way, a body that is not JSON among them, and the lookup returned false
C15_Witness_AllEndpointsFail ==
    /\ lookup.fn = "verifyBookingInClientPlace"
    /\ lookup.i = clientPlaceEndpoints
    /\ {"network_error", "timeout", "non_2xx", "malformed_body", "null_body"} \subseteq lookup.seen
    /\ lookup.returned = "false"

\* C14: a verification record exists only for a booking whose external attempt
\* has reported success: none exists while bookInMuseumSystem still waits for
\* the museum booking, and none is left behind in status 'failed' by it.
C14_RecordOnlyAfterSuccess ==
    \A w \in Workers : ops[w].pc = "book" => ~cpb[ops[w].id].exists

\* C10 witness: a found lookup followed by a not-found lookup on the same booking
C10_Witness_VerifiedThenNotFound ==
    /\ Len(hist) = 2
    /\ hist[1].id = hist[2].id
    /\ hist[1].before.exists
    /\ hist[1].found
    /\ ~hist[2].found
    /\ cpb[hist[2].id].clientPlaceStatus = "verified"
    /\ cpb[hist[2].id].verificationAttempts = hist[1].before.verificationAttempts + 2

\* C16: a verification that does not find the booking is not fatal: when a
\* strategy reported success and the verification after it answered not
\* found, the request is still answered with a created appointment, never
\* with a failure or an error response.
C16_NotFoundVerificationIsNotFatal ==
    \A c \in Clients :
        (/\ ctl[c].pc = "done"
         /\ ctl[c].strategy = "success"
         /\ ctl[c].verification = "not_found"
         /\ ~ctl[c].fatal)
            => ctl[c].status = 201

\* C17: a request that passed every check is answered with a created
\* appointment whenever nothing but the automated strategies or the
\* verification failed; an error response needs a fatal error.
C17_AutomationFailureInvisible ==
    \A c \in Clients :
        (ctl[c].pc = "done" /\ ctl[c].called /\ ~ctl[c].fatal) => ctl[c].status = 201

\* C18: under any interleaving of createAppointment requests at most one
\* pending or confirmed appointment exists per idNumber and visit day, and
\* the booking strategies are not called for a request whose id already has
\* such an appointment for that day.
C18_OneActivePerIdPerDay ==
    /\ [](\A a, b \in appts :
            (/\ a.idNumber = b.idNumber
             /\ a.visitDay = b.visitDay
             /\ a.status \in {"pending", "confirmed"}
             /\ b.status \in {"pending", "confirmed"}) => a = b)
    /\ [][\A c \in Clients :
            (~ctl[c].called /\ ctl'[c].called) => ~existingAppointment(appts, ctl'[c].req)]_vars

\* The business rules of a createAppointment call: no active penalty, no
\* existing same-day appointment, visit day not in the past, 1 to 5 visitors,
\* as many visitors as visitor details
RulesPassed(call) ==
    /\ call.penalty = "clear"
    /\ call.existing = "free"
    /\ call.req.visitDay >= 0
    /\ call.req.numberOfVisitors >= 1
    /\ call.req.numberOfVisitors <= 5
    /\ call.req.numberOfVisitors = call.req.visitorDetails

Untouched(c) ==
    /\ ~ctl[c].called
    /\ \A i \in 1 .. Len(logFile.records) : logFile.records[i].by # c
    /\ \A a \in appts : a.by # c

ClaimedCheckCharacter(idNumber) ==
    LET w == <<7, 9, 10, 5, 8, 4, 2, 1, 6, 3, 7, 9, 10, 5, 8, 4, 2>>
        table == <<"1", "0", "X", "9", "8", "7", "6", "5", "4", "3", "2">>
        sum[i \in 0 .. 17] == IF i = 0 THEN 0 ELSE sum[i - 1] + parseInt(idNumber[i]) * w[i]
    IN  table[(sum[17] % 11) + 1]

ReplaceLast(idNumber, ch) == [idNumber EXCEPT ![18] = ch]

\* C20 as stated: for an 18-character ID both validators return true exactly
\* when the first 17 characters are digits and the 18th character equals the
\* check character of the table; with any other last character they return
\* false.
C20_ExactCheckCharacter ==
    LET id == idCheck.id
        digits == \A i \in 1 .. 17 : IsDigit(id[i])
    IN  Len(id) = 18 =>
            /\ idCheck.chinese # "none" =>
                 (idCheck.chinese = "true" <=> (digits /\ id[18] = ClaimedCheckCharacter(id)))
            /\ idCheck.number # "none" =>
                 (idCheck.number = "true" <=> (digits /\ id[18] = ClaimedCheckCharacter(id)))
            /\ (idCheck.chinese = "true" \/ idCheck.number = "true") =>
                 \A ch \in IdChars \ {id[18]} :
                    ~validateChineseID(ReplaceLast(id, ch)) /\ ~validateIDNumber(ReplaceLast(id, ch))

\* C20, amended: for an 18-character ID both validators return true exactly
\* when the first 17 characters are digits and the 18th character, upper-cased,
\* equals the check character of the table (a final x counts as X); with a
\* last character that is another one even after upper-casing they return
\* false.
C20_CheckCharacterUpToCase ==
    LET id == idCheck.id
        digits == \A i \in 1 .. 17 : IsDigit(id[i])
    IN  Len(id) = 18 =>
            /\ idCheck.chinese # "none" =>
                 (idCheck.chinese = "true" <=>
                    (digits /\ toUpperCase(id[18]) = ClaimedCheckCharacter(id)))
            /\ idCheck.number # "none" =>
                 (idCheck.number = "true" <=>
                    (digits /\ toUpperCase(id[18]) = ClaimedCheckCharacter(id)))
            /\ (idCheck.chinese = "true" \/ idCheck.number = "true") =>
                 \A ch \in IdChars :
                    toUpperCase(ch) # toUpperCase(id[18]) =>
                        ~validateChineseID(ReplaceLast(id, ch)) /\ ~validateIDNumber(ReplaceLast(id, ch))

C20_Witness_LowerCaseX ==
    /\ Len(idCheck.id) = 18
    /\ idCheck.id[18] = "x"
    /\ idCheck.chinese = "true"
    /\ idCheck.number = "true"

Malformed(idNumber, lastChars) ==
    \/ Len(idNumber) # 18
    \/ \E i \in 1 .. 17 : i <= Len(idNumber) /\ ~IsDigit(idNumber[i])
    \/ Len(idNumber) = 18 /\ ~IsDigit(idNumber[18]) /\ idNumber[18] \notin lastChars

\* C21 as stated: validateChineseID returns false without computing the
\* checksum for every malformed input: a length other than 18, a non-digit
\* among the first 17 characters, an 18th character that is neither a digit
\* nor X.
C21_MalformedFailsBeforeChecksum ==
    (idCheck.chinese # "none" /\ Malformed(idCheck.id, {"X"}))
        => (idCheck.chinese = "false" /\ idCheck.summed = "false")

\* C21, amended: the same with an 18th character that is neither a digit nor
\* X nor x; a final x passes the format test and the checksum is computed.
C21_MalformedUpToCase ==
    (idCheck.chinese # "none" /\ Malformed(idCheck.id, {"X", "x"}))
        => (idCheck.chinese = "false" /\ idCheck.summed = "false")

C21_Witness_SeventeenCharacters ==
    /\ Len(idCheck.id) = 17
    /\ \A i \in 1 .. 17 : IsDigit(idCheck.id[i])
    /\ idCheck.chinese = "false"
    /\ idCheck.summed = "false"

\* C22: when an automated API tier receives a successful response that
\* carries an externally issued booking identifier, the result has
\* success = true and that identifier as bookingReference, and no
\* manual-booking record is created.
C22_ExternalIdentifierReturned ==
    (api.done /\ api.last = "json_id")
        => /\ api.returned.success
           /\ api.returned.bookingReference = External
           /\ logFile.records = <<>>

\* C25: an API strategy reports success for an endpoint only when the answer
\* is 2xx and its payload holds a success marker; after a 2xx answer without
\* one the strategy has not succeeded and moves on to the next endpoint.
C25_SuccessNeedsMarker ==
    /\ (api.done /\ api.returned.success) => api.last \in MarkerBodies
    /\ api.last \in {"status_202", "text", "null_body", "json_nomarker"}
          => (~api.returned.success /\ (api.i < Contacts(api.fn) => ~api.done))

\* C26: an API strategy tries its endpoints in list order, swallows the
\* transport failure or non-2xx answer of an endpoint and goes on with the
\* next, contacts no endpoint after the first successful one, and returns a
\* failure result, never throwing, when all endpoints are exhausted.
C26_EndpointCascade ==
    /\ [](~api.threw)
    /\ []((api.last \in TransportFailures /\ api.i < Contacts(api.fn)) => ~api.done)
    /\ []((api.done /\ ~api.returned.success)
            => (api.i = Contacts(api.fn) /\ api.returned = Failure(api.fn)))
    /\ []((api.fn # "none" /\ ~api.done /\ api.i = Contacts(api.fn)) => ENABLED ApiExhausted)
    /\ [][/\ (~api.done /\ api'.i # api.i) => api'.i = api.i + 1
          /\ (api.done /\ api'.i # 0) => (api'.i = api.i /\ api'.seen = api.seen)]_vars

C26_Witness_AllEndpointsFail ==
    /\ api.fn = "tryEnhancedMuseumAPI"
    /\ api.done
    /\ api.i = enhancedAPIs
    /\ TransportFailures \subseteq api.seen
    /\ ~api.returned.success
    /\ ~api.threw

\* C23: within one orchestration run at most one strategy is in flight: a
\* strategy is started only after the one before it has returned.
C23_OneStrategyInFlight ==
    /\ [](Len(invoked[Run]) - Len(rets[Run]) \in {0, 1})
    /\ [][Len(invoked'[Run]) > Len(invoked[Run])
            => (/\ Len(invoked'[Run]) = Len(invoked[Run]) + 1
                /\ Len(rets[Run]) = Len(invoked[Run]))]_vars

C23_Witness_BrowserStrategyInFlight ==
    /\ kind[Run] = "integration"
    /\ Len(invoked[Run]) = 4
    /\ Len(rets[Run]) = 3
    /\ pc[Run] \notin {"idle", "tier", "done"}

\* C24: the manual-booking log is append-only: no call removes a record or
\* alters the id or the booking data of a record, so the number of records
\* never decreases; updateBookingStatus changes status and officialReference
\* of the record whose id matches and nothing else; getPendingBookings
\* returns exactly the records whose status is still pending.
C24_AppendOnlyLog ==
    /\ [][/\ Len(logFile'.records) >= Len(logFile.records)
          /\ \A i \in 1 .. Len(logFile.records) :
                /\ logFile'.records[i].id = logFile.records[i].id
                /\ logFile'.records[i].by = logFile.records[i].by
                /\ logFile'.records[i] # logFile.records[i]
                     => (/\ manualOut'.updated.hit = i
                         /\ manualOut'.updated.id = logFile.records[i].id
                         /\ Len(logFile'.records) = Len(logFile.records))]_vars
    /\ [](LET pending == getPendingBookings(logFile)
          IN  /\ \A j \in 1 .. Len(pending) : pending[j].status = Pending
              /\ Len(pending) = Cardinality({i \in 1 .. Len(logFile.records) :
                                                logFile.records[i].status = Pending}))

C24_Witness_OneFailedOnePending ==
    /\ Len(logFile.records) = 2
    /\ logFile.records[1].status = Pending
    /\ logFile.records[2].status = "failed"
    /\ logFile.records[2].officialReference = 2
    /\ Len(getPendingBookings(logFile)) = 1

\* the result attemptBooking hands back when the page holds no form element
\* and no element of the alternative selectors: the one whose reference is
\* `SIMULATED-${Date.now()}`
NoFormLocated(r) == r.source = Attempt /\ r.bookingReference.prefix = "SIMULATED"

\* C27: when the browser-automation strategy locates no booking form on the
\* page, or finds no result marker, it returns a failure result: it neither
\* throws nor reports success.
C27_NoFormIsFailure ==
    \A p \in Requests :
        /\ NoFormLocated(sres[p]) => ~sres[p].success
        /\ NoFormLocated(result[p]) => ~result[p].success

\* C28: verification asks its endpoints in their fixed order and stops at
\* the first one that answers with a found/verified marker: no later endpoint
\* is contacted after a positive answer, and an endpoint that errors or
\* answers negatively does not stop the cascade.
C28_StopsAtFirstPositive ==
    /\ []("marker" \in lookup.seen => lookup.returned = "true")
    /\ [](lookup.returned = "false" => lookup.i = Endpoints(lookup.fn))
    /\ []((lookup.fn # "none" /\ lookup.returned = "none" /\ lookup.i < Endpoints(lookup.fn))
             => ENABLED LookupEndpoint)
    /\ [][/\ (lookup.returned = "none" /\ lookup'.i # lookup.i) => lookup'.i = lookup.i + 1
          /\ (lookup.returned # "none" /\ lookup'.i # 0)
                => (lookup'.i = lookup.i /\ lookup'.seen = lookup.seen)]_vars

C28_Witness_FoundAtThirdEndpoint ==
    /\ lookup.fn = "verifyInClientPlace"
    /\ lookup.i = 3
    /\ lookup.returned = "true"
    /\ {"network_error", "no_marker", "marker"} \subseteq lookup.seen

\* C29: for each form field the browser strategy fills only the first
\* candidate selector that matches an element: once one candidate has matched
\* and been filled, no later candidate of the same field is typed into or
\* selected.
C29_FirstMatchingSelectorOnly ==
    \A a, b \in form.typed : a = b

\* the set of URLs the claimed rule lets a navigation reach: the override
\* when the environment sets one, the bundled test page otherwise
ClaimedUrls(env) ==
    IF Truthy(env) /\ trim(env) # ""
    THEN {env, "http://staging.test/booking?check=true"}
    ELSE {testMuseumSite, "http://localhost:8080/test-museum-site.html?check=true"}

\* C30: the booking site URL is the environment override when it is set and
\* the bundled test page when it is unset: every page the browser navigates
\* to is the override, or the test page when there is none, and never a
\* hard-coded production URL.
C30_NavigatesToConfiguredUrl ==
    nav.visited \subseteq ClaimedUrls(nav.env)

\* the step of p is one that calls this.browser.close(): the finally block of
\* a browser strategy, or the close of the mobile retry, with a handle set
ClosesBrowser(p) ==
    /\ pc[p] \in {"st_finally", "ab_finally", "ca_finally", "ab_mclose"}
    /\ pc'[p] # pc[p]
    /\ browser # 0

\* C31: over any sequence of calls on the shared instance, close() is called
\* at most once on each launched browser: no call, in particular no
\* attemptBooking that returned from its API step without launching, calls
\* close() on a browser handle whose close() was already called.
C31_CloseAtMostOnce ==
    [][\A p \in Requests :
          ClosesBrowser(p) => bstate[browser] = "open" /\ ~closeFailed[browser]]_vars

\* C32: every record of the manual-booking log has an id of its own: two
\* manual attemptBooking calls, also within one clock millisecond, never write
\* records with the same MANUAL-<timestamp> id, so that updateBookingStatus
\* addresses exactly one record.
C32_DistinctRecordIds ==
    \A i, j \in 1 .. Len(logFile.records) :
        logFile.records[i].id = logFile.records[j].id => i = j

\* C33: the booking reference the manual-fallback tier returns identifies the
\* record it persisted: the reference in the result of
\* createVerifiedManualBooking is the id of a record of the manual-booking
\* log, so updateBookingStatus called with it reaches that record.
C33_ReferenceIsRecordId ==
    \A p \in Requests :
        (pc[p] = "done" /\ result[p].success /\ result[p].source = "manualFallback") =>
            FindBooking(logFile.records, result[p].bookingReference) # 0

\* the run is createGuaranteedClientPlaceBooking, and tryRealMuseumAPI and
\* attemptBooking have both returned a failure
BothFailed(p) ==
    /\ kind[p] = "guaranteed"
    /\ Len(rets[p]) >= 2
    /\ rets[p][1].name = "tryRealMuseumAPI" /\ ~rets[p][1].success /\ ~rets[p][1].threw
    /\ rets[p][2].name = Attempt /\ ~rets[p][2].success /\ ~rets[p][2].threw

\* nothing after the simulated booking is invoked, no manual record is
\* written, and the run ends with the simulated booking of the minute
EndsSimulated(p) ==
    /\ Len(invoked[p]) <= 3
    /\ \A i \in 1 .. Len(invoked[p]) : invoked[p][i] = GuaranteedTiers[i]
    /\ logFile.records = <<>>
    /\ pc[p] = "done" =>
          /\ result[p].success
          /\ result[p].source = "trySimulatedMuseumBooking"
          /\ result[p].status = bookingStatus(minute)
          /\ result[p].status = IF minute < releaseTime THEN "pending_release"
                                ELSE IF minute > releaseTime + 5 THEN "expired"
                                ELSE "confirmed"

C35_TimingGatesAgree ==
    timing # NoTiming =>
        /\ timing.canBook = checkMuseumTimingStatus(minute).canBook
        /\ timing.canBook = workingCheckMuseumTimingStatus(minute, "WorkingMuseumIntegration").canBook
        /\ timing.canBook = checkMuseumTiming(minute).canBook
        /\ timing.by \in {"MuseumAutomation", "WorkingMuseumIntegration"} =>
              /\ timing.status = checkMuseumTimingStatus(minute).status
              /\ timing.status = workingCheckMuseumTimingStatus(minute, "WorkingMuseumIntegration").status

\* C36: at every minute m before the release the remaining time that
\* checkMuseumTimingStatus reports as h hours and r minutes has h >= 0,
\* 0 <= r < 60 and h * 60 + r = 1020 - m.
C36_RemainingTimeWellFormed ==
    (minute < releaseTime /\ timing.by \in {"MuseumAutomation", "WorkingMuseumIntegration",
                                             "PracticalMuseumIntegration"}) =>
        /\ timing.hours >= 0
        /\ timing.minutes >= 0
        /\ timing.minutes < 60
        /\ timing.hours * 60 + timing.minutes = releaseTime - minute

\* the names of the approaches called so far, in the order of their calls
ApproachCalls == SelectSeq(rmi.calls, LAMBDA c : c.name # "verifyInClientPlace")

\* C37: createRealMuseumBooking attempts no approach and no verification when
\* its timing check reports canBook = false, and returns a failure at once;
\* when canBook is true the approaches run in the order direct API, web form,
\* mobile API, WeChat API, each at most once, and the verification is called
\* only after an approach has returned success.
C37_GateThenOrderedApproaches ==
    /\ (rmi.pc # "idle" /\ ~rmi.canBook) =>
          /\ rmi.calls = <<>>
          /\ rmi.pc = "done"
          /\ ~rmi.result.success
    /\ Len(ApproachCalls) <= Len(approaches)
    /\ \A k \in 1 .. Len(ApproachCalls) : ApproachCalls[k].name = approaches[k]
    /\ \A k \in 1 .. Len(rmi.calls) :
          rmi.calls[k].name = "verifyInClientPlace" =>
              /\ k > 1
              /\ k = Len(rmi.calls)
              /\ rmi.calls[k - 1].name # "verifyInClientPlace"
              /\ rmi.calls[k - 1].success
    /\ rmi.result.success => rmi.canBook

\* C37 witness: at 17:05 the call passed the timing gate, the direct API
\* failed, the web form succeeded and the verification did not find the
\* booking
C37_Witness_SecondApproachVerified ==
    /\ minute = releaseTime + 5
    /\ rmi.pc = "done"
    /\ rmi.canBook
    /\ Len(rmi.calls) = 3
    /\ ~rmi.calls[1].success
    /\ rmi.calls[2].name = "tryMuseumWebForm"
    /\ rmi.calls[3].name = "verifyInClientPlace"
    /\ rmi.result.success
    /\ ~rmi.result.clientPlaceVerified

\* C38: updateBookingStatus called with a bookingId that matches no record of
\* the manual-booking log leaves every record as it was and signals an error
\* to its caller: an update that returned normally, for which
\* updateManualBooking answers 'updated successfully', has found its record.
C38_UnknownIdSignalsError ==
    /\ [](manualOut.updated # NoUpdate => manualOut.updated.hit # 0)
    /\ [][(manualOut'.updated # manualOut.updated /\ manualOut'.updated # NoUpdate
             /\ FindBooking(logFile.records, manualOut'.updated.id) = 0)
          => logFile'.records = logFile.records]_vars

====
